---- MODULE Spec2Model ----
(***************************************************************************)
(* Model of the reviewer selection of triagebot (src/handlers/assign.rs).  *)
(*                                                                         *)
(* One resolution call is modelled as a state machine:                     *)
(*   expand_teams_and_groups  (one action per loop iteration),             *)
(*   candidate_reviewers_from_names (the filtering loop, then the return), *)
(*   find_reviewer_from_names (the selection).                             *)
(* determine_assignee is a second machine around it: one action per tier   *)
(* and one per return of the resolution call the tier makes.               *)
(* Strings are sequences of one-character strings, so that the prefix      *)
(* stripping, the lower-casing and the '/' test are computed as the code   *)
(* computes them.                                                          *)
(***************************************************************************)
EXTENDS Integers, Sequences, FiniteSets, TLC

(***************************************************************************)
(* Bounds of the model.                                                    *)
(***************************************************************************)
\* greatest number of names in one request
MaxNames == 2
\* greatest capacity a review preference can hold
MaxCapacity == 1
\* greatest number of PRs in a reviewer's workqueue
MaxQueue == 2
\* greatest number of files in a diff
MaxFiles == 2
\* greatest number of changed lines in the diff of a file
MaxLines == 2
\* greatest number of times a comment is delivered again
MaxDeliveries == 1
\* greatest number of events one PR or issue gets
MaxEvents == 3
\* greatest number of commits in a branch comparison
MaxCommits == 3

(***************************************************************************)
(* Strings.                                                                *)
(***************************************************************************)
\* char::to_lowercase on the letters the model uses
LowerChar(ch) ==
    CASE ch = "A" -> "a"
      [] ch = "B" -> "b"
      [] ch = "G" -> "g"
      [] ch = "T" -> "t"
      [] OTHER -> ch

\* faulty variant: the case of the letters is kept
keep_case(s) == s

\* str::to_lowercase
ToLowercase(s) == [i \in 1..Len(s) |-> LowerChar(s[i])]

\* str::starts_with
StartsWith(s, p) == Len(s) >= Len(p) /\ SubSeq(s, 1, Len(p)) = p

\* the rest of s after its first n characters
DropFirst(s, n) == SubSeq(s, n + 1, Len(s))

\* str::strip_prefix(p).unwrap_or(s): removes one occurrence of p
StripPrefixOrSelf(s, p) == IF StartsWith(s, p) THEN DropFirst(s, Len(p)) ELSE s

\* str::trim_start_matches: removes p repeatedly
RECURSIVE TrimStartMatches(_, _)
TrimStartMatches(s, p) ==
    IF p # <<>> /\ StartsWith(s, p)
    THEN TrimStartMatches(DropFirst(s, Len(p)), p)
    ELSE s

\* str::contains(char)
ContainsChar(s, ch) == \E i \in 1..Len(s) : s[i] = ch

\* the elements of a sequence
Range(s) == {s[i] : i \in 1..Len(s)}

(***************************************************************************)
(* The names the model draws its inputs from.                              *)
(***************************************************************************)
ghost   == <<"g", "h", "o", "s", "t">>
al      == <<"a", "l">>
AlUpper == <<"A", "l">>
atAl    == <<"@", "a", "l">>
bo      == <<"b", "o">>
BoUpper == <<"B", "o">>
atBo    == <<"@", "b", "o">>
cy      == <<"c", "y">>
di      == <<"d", "i">>
zed     == <<"z">>
\* group and team names
grpC    == <<"c">>
grpN    == <<"n">>
grpX    == <<"x">>
teamW   == <<"w">>
orgC    == <<"o", "/", "c">>
slashed == <<"x", "/", "y">>
atOrgC  == <<"@", "o", "/", "c">>
tW      == <<"t", "-", "w">>
\* a user name behind the organization prefix
orgAl   == <<"o", "/", "a", "l">>
\* owner patterns
patA     == <<"/", "a">>
patAB    == <<"/", "a", "/", "b">>
patRelAB == <<"a", "/", "b">>
patB     == <<"b">>
patBad   == <<"[">>
\* paths of changed files
pathAF   == <<"a", "/", "f">>
pathABF  == <<"a", "/", "b", "/", "f">>
pathG    == <<"g">>
\* lines of a diff
lineOld  == <<"-", "-", "-", " ", "a">>
lineNew  == <<"+", "+", "+", " ", "b">>
lineAdd  == <<"+", "x">>
lineDel  == <<"-", "y">>
lineCtx  == <<" ", "c">>

(***************************************************************************)
(* State.                                                                  *)
(***************************************************************************)
VARIABLES
    names,              \* the request: names: &[String]
    author,             \* issue.user.login
    assignees,          \* logins of issue.assignees
    organization,       \* issue.repository().organization
    users_on_vacation,  \* config.users_on_vacation
    adhoc_groups,       \* config.adhoc_groups: group name -> member list
    teams,              \* teams.teams: team name -> github names of the members
    review_prefs,       \* stored review preferences: user -> NoPrefs or a record
    workqueue,          \* reviewer workqueue: user -> set of PR numbers
    pc,                 \* position in the call: expand, filter, return, choose, done
    to_be_expanded,     \* the work stack of expand_teams_and_groups
    expanded,           \* the usernames expanded so far
    seen_names,         \* the groups already expanded
    expansion_happened, \* whether a group or team was met
    pushes,             \* history: group -> times its members were pushed
    iterations,         \* history: loop iterations of expand_teams_and_groups
    candidates,         \* the per-user outcome of the filtering loop
    result,             \* what candidate_reviewers_from_names returned
    reviewer,           \* what find_reviewer_from_names returned
    directive,          \* find_assign_command: <<>> for None, <<name>> for Some
    diff_result,        \* what find_reviewers_from_diff(config, diff) returns
    tier,               \* position in determine_assignee
    comments,           \* the comments posted on the PR, rendered
    ret,                \* what determine_assignee returned
    entered,            \* history: the tiers determine_assignee went into
    calls,              \* history: the find_reviewer_from_names calls made
    owners,             \* config.owners: owner pattern -> owner list
    diff,               \* the diff of the PR: the files, each a path and its lines
    event,              \* the event handled: its action, its user, the issue's kind and state
    cmd,                \* the AssignCommand of the comment
    membership,         \* what event.user().is_team_member() answers
    assigned,           \* the assignees of the issue on the tracker
    data,               \* the AssignData kept in the issue body: <<>> or <<user>>
    labels,             \* the labels added to the issue
    hpc,                \* position in the handler
    hret,               \* what the handler returned
    sent,               \* history: the calls a handler made to the tracker
    handled,            \* the deliveries of the event that were handled before
    last_warned_comment, \* BranchBehindStatusState as stored: <<id>> or <<>>
    last_behind_count,  \* BranchBehindStatusState as stored: <<count>> or <<>>
    hidden,             \* the comments of the PR that are hidden
    observed,           \* history: what the last branch-behind event showed
    relnotes_issue,     \* RelnotesState as stored: <<number>> or <<>>
    created,            \* the tracking issues created, each with its milestone
    answers,            \* what the client answers to behind_master
    warning             \* what behind_master returned

issueVars  == <<names, author, assignees, organization>>
configVars == <<users_on_vacation, adhoc_groups, teams>>
prefVars   == <<review_prefs, workqueue>>
assignVars == <<directive, diff_result, tier, comments, ret, entered, calls>>
diffVars   == <<owners, diff>>
\* the state of the handlers next to assign
otherVars  == <<last_warned_comment, last_behind_count, hidden, observed,
                relnotes_issue, created, answers, warning>>
handlerVars == <<event, cmd, membership, assigned, data, labels, hpc, hret, sent,
                 handled, otherVars>>
\* what a resolution call reads and leaves as it is
inputVars  == <<issueVars, configVars, prefVars, assignVars, diffVars, handlerVars>>
expandVars == <<to_be_expanded, expanded, seen_names, expansion_happened,
                pushes, iterations>>
selectVars == <<pc, expandVars, candidates, result, reviewer>>
vars       == <<inputVars, selectVars>>

(***************************************************************************)
(* Values returned: Ok(..) and the variants of FindReviewerError.          *)
(***************************************************************************)
Outcome(k, u, i, s) == [kind |-> k, username |-> u, initial |-> i, users |-> s]
NoOutcome           == Outcome("None", <<>>, <<>>, {})
OkCandidates(s)     == Outcome("Ok", <<>>, <<>>, s)
OkReviewer(u)       == Outcome("Ok", u, <<>>, {u})
TeamNotFound(t)     == Outcome("TeamNotFound", t, <<>>, {})
NoReviewer(i)       == Outcome("NoReviewer", <<>>, i, {})
ReviewerError(k, u) == Outcome(k, u, <<>>, {})
Panicked            == Outcome("Panic", <<>>, <<>>, {})

\* the event a handler is given: IssuesAction::Opened or a comment, the
\* login of event.user(), issue.is_pr() and issue.is_open()
Event(a, u, pr, open) == [action |-> a, user |-> u, is_pr |-> pr, is_open |-> open]
NoEvent               == Event("none", <<>>, FALSE, FALSE)

\* AssignCommand: Claim, AssignUser { username }, ReleaseAssignment,
\* RequestReview { name }
Command(k, n) == [kind |-> k, name |-> n]
NoCommand     == Command("none", <<>>)
Claim         == Command("Claim", <<>>)
AssignUser(username) == Command("AssignUser", username)
ReleaseAssignment    == Command("ReleaseAssignment", <<>>)
RequestReview(name)  == Command("RequestReview", name)

\* the variants that name one excluded user
PerUserErrors == {"ReviewerIsPrAuthor", "ReviewerOnVacation", "ReviewerAlreadyAssigned"}

(***************************************************************************)
(* expand_teams_and_groups                                                 *)
(***************************************************************************)
\* strip_organization_prefix: '@' is trimmed, then "<organization>/"
strip_organization_prefix(name) ==
    TrimStartMatches(TrimStartMatches(name, <<"@">>), organization \o <<"/">>)

\* the name get_team_name looks up: "t-" and "T-" prefixes are trimmed too
team_name_of(name) ==
    TrimStartMatches(
        TrimStartMatches(strip_organization_prefix(name), <<"t", "-">>),
        <<"T", "-">>)

\* get_team_name: <<team_name>> for Some(team_name), <<>> for None
get_team_name(name) ==
    IF team_name_of(name) \in DOMAIN teams THEN <<team_name_of(name)>> ELSE <<>>

\* faulty variant: the organization prefix is kept in the group lookup
maybe_group_with_org(name) == TrimStartMatches(name, <<"@">>)

\* faulty variant: the organization prefix is stripped from the user name too
maybe_user_without_org(name) == strip_organization_prefix(name)

\* the three readings of the popped name
maybe_team(name)  == get_team_name(name)
maybe_group(name) == strip_organization_prefix(name)
maybe_user(name)  == StripPrefixOrSelf(name, <<"@">>)

\* the top of the work stack: Vec::pop takes the last element
name_to_expand == to_be_expanded[Len(to_be_expanded)]
rest_of_stack  == SubSeq(to_be_expanded, 1, Len(to_be_expanded) - 1)

is_adhoc_group(name) == maybe_group(name) \in DOMAIN adhoc_groups
is_team(name)        == maybe_team(name) # <<>>

\* faulty variant: the test of the insertion is inverted
seen_names_insert_inverted(group) == group \in seen_names

\* faulty variant: the seen set is not consulted
seen_names_insert_always(group) == TRUE

\* seen_names.insert(group) is true when the group was not in the set
seen_names_insert(group) == group \notin seen_names

\* one iteration of the loop, the popped name is an ad-hoc group
ExpandGroup ==
    /\ pc = "expand"
    /\ to_be_expanded # <<>>
    /\ is_adhoc_group(name_to_expand)
    /\ LET group == maybe_group(name_to_expand) IN
        /\ expansion_happened' = TRUE
        /\ IF seen_names_insert(group)
           THEN /\ seen_names' = seen_names \cup {group}
                /\ to_be_expanded' = rest_of_stack \o adhoc_groups[group]
                /\ pushes' = [pushes EXCEPT ![group] = @ + 1]
           ELSE /\ to_be_expanded' = rest_of_stack
                /\ UNCHANGED <<seen_names, pushes>>
    /\ iterations' = iterations + 1
    /\ UNCHANGED <<pc, expanded, candidates, result, reviewer, inputVars>>

\* one iteration of the loop, the popped name is a team
ExpandTeam ==
    /\ pc = "expand"
    /\ to_be_expanded # <<>>
    /\ ~is_adhoc_group(name_to_expand)
    /\ is_team(name_to_expand)
    /\ expansion_happened' = TRUE
    /\ expanded' = expanded \cup Range(teams[maybe_team(name_to_expand)[1]])
    /\ to_be_expanded' = rest_of_stack
    /\ iterations' = iterations + 1
    /\ UNCHANGED <<pc, seen_names, pushes, candidates, result, reviewer, inputVars>>

\* one iteration of the loop, the popped name is unknown and holds a '/':
\* the error goes through candidate_reviewers_from_names and
\* find_reviewer_from_names by the ? operator
ExpandTeamNotFound ==
    /\ pc = "expand"
    /\ to_be_expanded # <<>>
    /\ ~is_adhoc_group(name_to_expand)
    /\ ~is_team(name_to_expand)
    /\ ContainsChar(maybe_user(name_to_expand), "/")
    /\ result' = TeamNotFound(maybe_user(name_to_expand))
    /\ reviewer' = TeamNotFound(maybe_user(name_to_expand))
    /\ pc' = "done"
    /\ to_be_expanded' = rest_of_stack
    /\ iterations' = iterations + 1
    /\ UNCHANGED <<expanded, seen_names, expansion_happened, pushes, candidates,
                   inputVars>>

\* one iteration of the loop, the popped name is taken as a user
ExpandUser ==
    /\ pc = "expand"
    /\ to_be_expanded # <<>>
    /\ ~is_adhoc_group(name_to_expand)
    /\ ~is_team(name_to_expand)
    /\ ~ContainsChar(maybe_user(name_to_expand), "/")
    /\ expanded' = expanded \cup {maybe_user(name_to_expand)}
    /\ to_be_expanded' = rest_of_stack
    /\ iterations' = iterations + 1
    /\ UNCHANGED <<pc, seen_names, expansion_happened, pushes, candidates, result,
                   reviewer, inputVars>>

\* faulty variant: break in the place of continue, the loop ends at a group
\* that was seen before
after_seen_group_break(stack) == <<>>

\* continue after a group that was seen before: the loop goes on with the
\* rest of the stack
after_seen_group(stack) == stack

\* the loop of expand_teams_and_groups as a function of the stack and of the
\* locals; groups gives the member lists (the group names are those of
\* config.adhoc_groups)
RECURSIVE expand_loop(_, _, _, _, _)
expand_loop(groups, stack, exp, seen, happened) ==
    IF stack = <<>>
    THEN [ok |-> TRUE, users |-> exp, happened |-> happened, team |-> <<>>]
    ELSE LET name == stack[Len(stack)]
             rest == SubSeq(stack, 1, Len(stack) - 1)
         IN IF is_adhoc_group(name)
            THEN IF maybe_group(name) \notin seen
                 THEN expand_loop(groups, rest \o groups[maybe_group(name)], exp,
                                  seen \cup {maybe_group(name)}, TRUE)
                 ELSE expand_loop(groups, after_seen_group(rest), exp, seen, TRUE)
            ELSE IF is_team(name)
            THEN expand_loop(groups, rest,
                             exp \cup Range(teams[maybe_team(name)[1]]), seen, TRUE)
            ELSE IF ContainsChar(maybe_user(name), "/")
            THEN [ok |-> FALSE, users |-> {}, happened |-> FALSE,
                  team |-> maybe_user(name)]
            ELSE expand_loop(groups, rest, exp \cup {maybe_user(name)}, seen,
                             happened)

\* expand_teams_and_groups on the request ns
expand_teams_and_groups(groups, ns) == expand_loop(groups, ns, {}, {}, FALSE)

(***************************************************************************)
(* candidate_reviewers_from_names                                          *)
(***************************************************************************)
\* name_lower == issue.user.login.to_lowercase()
is_pr_author(candidate) == ToLowercase(candidate) = ToLowercase(author)

\* config.is_on_vacation(&candidate)
is_on_vacation(candidate) ==
    \E v \in users_on_vacation : ToLowercase(candidate) = ToLowercase(v)

\* issue.assignees.iter().any(|a| name_lower == a.login.to_lowercase())
is_already_assigned(candidate) ==
    \E a \in assignees : ToLowercase(candidate) = ToLowercase(a)

\* faulty variant: the assignees are looked at before the vacations
exclusion_reason_assigned_first(candidate) ==
    IF is_pr_author(candidate) THEN "ReviewerIsPrAuthor"
    ELSE IF is_already_assigned(candidate) THEN "ReviewerAlreadyAssigned"
    ELSE IF is_on_vacation(candidate) THEN "ReviewerOnVacation"
    ELSE "None"

\* the reason recorded for a candidate, "None" when there is none
exclusion_reason(candidate) ==
    IF is_pr_author(candidate) THEN "ReviewerIsPrAuthor"
    ELSE IF is_on_vacation(candidate) THEN "ReviewerOnVacation"
    ELSE IF is_already_assigned(candidate) THEN "ReviewerAlreadyAssigned"
    ELSE "None"

\* the loop over the expanded users: each gets Ok or its reason. The Vec is
\* filled in the HashSet's iteration order, which is unspecified: it is kept
\* as a set, and pop() may yield any element of it.
FilterCandidates ==
    /\ pc = "expand"
    /\ to_be_expanded = <<>>
    /\ candidates' = {[user |-> u, reason |-> exclusion_reason(u)] : u \in expanded}
    /\ pc' = "return"
    /\ UNCHANGED <<expandVars, result, reviewer, inputVars>>

\* the candidates that were pushed as Ok
valid_candidates == {c.user : c \in {d \in candidates : d.reason = "None"}}

\* faulty variant: the negation of expansion_happened is lost
is_single_user_expanded == Len(names) = 1 /\ expansion_happened

\* faulty variant: the number of names is not looked at
is_single_user_any_length == ~expansion_happened

\* Was it a request for a single user, i.e. `r? @username`?
is_single_user == Len(names) = 1 /\ ~expansion_happened

\* faulty variant: the valid set is returned without the emptiness test
candidates_outcome_unchecked(popped) == OkCandidates(valid_candidates)

\* faulty variant: NoReviewer is built without the requested names
candidates_outcome_initial_lost(popped) ==
    IF valid_candidates = {}
    THEN IF is_single_user
         THEN IF popped = {} THEN Panicked
              ELSE LET c == CHOOSE x \in popped : TRUE IN
                   IF c.reason = "None" THEN Panicked
                   ELSE ReviewerError(c.reason, c.user)
         ELSE NoReviewer(<<>>)
    ELSE OkCandidates(valid_candidates)

\* what candidate_reviewers_from_names returns when popped is the element
\* candidates.pop() yields (no element: unwrap panics)
candidates_outcome(popped) ==
    IF valid_candidates = {}
    THEN IF is_single_user
         THEN IF popped = {} THEN Panicked
              ELSE LET c == CHOOSE x \in popped : TRUE IN
                   IF c.reason = "None" THEN Panicked
                   ELSE ReviewerError(c.reason, c.user)
         ELSE NoReviewer(names)
    ELSE OkCandidates(valid_candidates)

\* the end of candidate_reviewers_from_names; an Err goes through
\* find_reviewer_from_names by the ? operator
ReturnCandidates ==
    /\ pc = "return"
    /\ \E popped \in IF candidates = {} THEN {{}} ELSE {{c} : c \in candidates} :
          /\ result' = candidates_outcome(popped)
          /\ IF candidates_outcome(popped).kind = "Ok"
             THEN pc' = "choose" /\ UNCHANGED reviewer
             ELSE pc' = "done" /\ reviewer' = candidates_outcome(popped)
    /\ UNCHANGED <<expandVars, candidates, inputVars>>

(***************************************************************************)
(* find_reviewer_from_names                                                *)
(***************************************************************************)
\* the users the selection can return: "ghost" when present, else any
\* candidate (rand's choose)
selectable(cands) == IF ghost \in cands THEN {ghost} ELSE cands

\* faulty variant: the PR is put on the workqueue of the reviewer chosen
Selects_enqueues(u) ==
    /\ pc = "choose"
    /\ u \in selectable(result.users)
    /\ reviewer' = OkReviewer(u)
    /\ pc' = "done"
    /\ workqueue' = [w \in DOMAIN workqueue |->
                        IF w = u THEN workqueue[w] \cup {MaxQueue} ELSE workqueue[w]]
    /\ UNCHANGED <<expandVars, candidates, result, issueVars, configVars,
                   review_prefs, assignVars, diffVars, handlerVars>>

\* the selection returns u
Selects(u) ==
    /\ pc = "choose"
    /\ u \in selectable(result.users)
    /\ reviewer' = OkReviewer(u)
    /\ pc' = "done"
    /\ UNCHANGED <<expandVars, candidates, result, inputVars>>

\* the selection; choose() on an empty set is None and expect panics
SelectReviewer ==
    /\ pc = "choose"
    /\ IF result.users = {}
       THEN /\ reviewer' = Panicked
            /\ pc' = "done"
            /\ UNCHANGED <<expandVars, candidates, result, inputVars>>
       ELSE \E u \in result.users : Selects(u)

(***************************************************************************)
(* determine_assignee                                                      *)
(***************************************************************************)
\* the key looked up by config.adhoc_groups.get("fallback")
fallback == <<"f", "a", "l", "l", "b", "a", "c", "k">>

\* faulty variant: the logins are compared as they are written
is_self_assign_exact(assignee, pr_author) == assignee = pr_author

\* is_self_assign
is_self_assign(assignee, pr_author) == ToLowercase(assignee) = ToLowercase(pr_author)

\* initial.join(",")
RECURSIVE Join(_)
Join(list) ==
    IF list = <<>> THEN <<>>
    ELSE IF Len(list) = 1 THEN list[1]
    ELSE list[1] \o <<",">> \o Join(Tail(list))

\* Display for FindReviewerError: the message and what is put in its place
\* holder; the messages of ReviewerIsPrAuthor and ReviewerAlreadyAssigned
\* have no place holder, replace() leaves them as they are
to_string(e) ==
    CASE e.kind = "TeamNotFound" ->
            [message |-> "Team or group {team} not found.", arg |-> e.username]
      [] e.kind = "NoReviewer" ->
            [message |-> "No reviewers could be found from initial request {}",
             arg |-> Join(e.initial)]
      [] e.kind = "ReviewerOnVacation" ->
            [message |-> "{username} is on vacation.", arg |-> e.username]
      [] e.kind = "ReviewerIsPrAuthor" ->
            [message |-> "Pull request author cannot be assigned as reviewer.",
             arg |-> <<>>]
      [] OTHER ->
            [message |-> "Requested reviewer is already assigned to this pull request.",
             arg |-> <<>>]

\* the values of the Result determine_assignee returns
NoRet          == [kind |-> "None", assignee |-> <<>>, from_comment |-> FALSE]
OkRet(who, fc) == [kind |-> "Ok", assignee |-> who, from_comment |-> fc]
\* the error of post_comment, passed on by the ? operator
ErrRet         == [kind |-> "Err", assignee |-> <<>>, from_comment |-> FALSE]

\* the values find_reviewers_from_diff returns
DiffOk(list)   == [ok |-> TRUE, names |-> list]
DiffErr        == [ok |-> FALSE, names |-> <<>>]

\* faulty variant: TeamNotFound is logged and not posted, as in the diff tier
posts_error_unless_team(t, e) == t = "directive_call" /\ e.kind # "TeamNotFound"

\* faulty variant: a reviewer on vacation is reported from every tier
posts_error_on_vacation(t, e) ==
    t = "directive_call" \/ e.kind = "ReviewerOnVacation"

\* whether the Err arm of the call of tier t posts the error: the arm of the
\* r? directive does, the arms of the diff and of the fallback group log
posts_error(t, e) == t = "directive_call"

\* faulty variant: only the assignee of the fallback group is not said to
\* come from the r? directive
from_comment_unless_fallback(t) == t # "fallback_call"

\* faulty variant: every assignee is said to come from the r? directive
from_comment_always(t) == TRUE

\* the second component of the value returned with the assignee of tier t
from_comment_of(t) == t = "directive_call"

\* the arm of the match on find_reviewers_from_diff
diff_arm ==
    IF diff_result.ok /\ diff_result.names # <<>> THEN "candidates"
    ELSE IF diff_result.ok THEN "empty"
    ELSE "error"

\* faulty variant: the resolution is run on an empty list of candidates
after_diff_arm_empty_resolves(arm) ==
    CASE arm = "candidates" -> "diff_call"
      [] arm = "empty" -> "diff_call"
      [] OTHER -> "fallback"

\* faulty variant: the error of find_reviewers_from_diff ends the function
after_diff_arm_error_ends(arm) ==
    CASE arm = "candidates" -> "diff_call"
      [] arm = "empty" -> "fallback"
      [] OTHER -> "returned"

\* where determine_assignee goes on after the arm: the resolution of the
\* candidates, or the fallback group
after_diff_arm(arm) ==
    CASE arm = "candidates" -> "diff_call"
      [] arm = "empty" -> "fallback"
      [] OTHER -> "fallback"

\* the call find_reviewer_from_names(.., ns) is entered
StartCall(ns) ==
    /\ names' = ns
    /\ pc' = "expand"
    /\ to_be_expanded' = ns
    /\ expanded' = {}
    /\ seen_names' = {}
    /\ expansion_happened' = FALSE
    /\ pushes' = [g \in DOMAIN adhoc_groups |-> 0]
    /\ iterations' = 0
    /\ candidates' = {}
    /\ result' = NoOutcome
    /\ reviewer' = NoOutcome

\* what no action of determine_assignee changes
fixedVars == <<author, assignees, organization, configVars, prefVars, directive,
               diff_result, diffVars, handlerVars>>

\* the call find_reviewer_from_names made by tier t has returned: Ok returns
\* the assignee; an Err is posted or logged and the function goes on with
\* the tier next (or returns (None, false) after the last); an Err of
\* post_comment is passed on
TierReturn(t, next) ==
    /\ tier = t
    /\ pc = "done"
    /\ pc' = "idle"
    /\ calls' = Append(calls, [tier |-> t, outcome |-> reviewer])
    /\ IF reviewer.kind = "Ok"
       THEN /\ ret' = OkRet(<<reviewer.username>>, from_comment_of(t))
            /\ tier' = "returned"
            /\ UNCHANGED comments
       ELSE IF reviewer.kind = "Panic"
       THEN /\ tier' = "panicked"
            /\ UNCHANGED <<ret, comments>>
       ELSE IF posts_error(t, reviewer)
       THEN \E posted \in BOOLEAN :
               IF posted
               THEN /\ comments' = Append(comments, to_string(reviewer))
                    /\ tier' = next
                    /\ ret' = IF next = "returned" THEN OkRet(<<>>, FALSE) ELSE ret
               ELSE /\ ret' = ErrRet
                    /\ tier' = "returned"
                    /\ UNCHANGED comments
       ELSE /\ tier' = next
            /\ ret' = IF next = "returned" THEN OkRet(<<>>, FALSE) ELSE ret
            /\ UNCHANGED comments
    /\ UNCHANGED <<names, expandVars, candidates, result, reviewer, entered,
                   fixedVars>>

\* the r? directive of the PR body
DirectiveTier ==
    /\ tier = "directive"
    /\ IF directive = <<>>
       THEN /\ tier' = "diff"
            /\ UNCHANGED <<names, selectVars, ret, entered>>
       ELSE IF is_self_assign(directive[1], author)
       THEN /\ ret' = OkRet(directive, TRUE)
            /\ tier' = "returned"
            /\ entered' = Append(entered, "directive")
            /\ UNCHANGED <<names, selectVars>>
       ELSE /\ StartCall(directive)
            /\ tier' = "directive_call"
            /\ entered' = Append(entered, "directive")
            /\ UNCHANGED ret
    /\ UNCHANGED <<comments, calls, fixedVars>>

DirectiveReturn == TierReturn("directive_call", "diff")

\* the owners of the files of the diff
DiffTier ==
    /\ tier = "diff"
    /\ entered' = Append(entered, "diff")
    /\ tier' = after_diff_arm(diff_arm)
    /\ IF diff_arm = "candidates"
       THEN StartCall(diff_result.names)
       ELSE UNCHANGED <<names, selectVars>>
    /\ UNCHANGED <<comments, ret, calls, fixedVars>>

DiffReturn == TierReturn("diff_call", "fallback")

\* the group named fallback
FallbackTier ==
    /\ tier = "fallback"
    /\ IF fallback \in DOMAIN adhoc_groups
       THEN /\ StartCall(adhoc_groups[fallback])
            /\ tier' = "fallback_call"
            /\ entered' = Append(entered, "fallback")
            /\ UNCHANGED ret
       ELSE /\ ret' = OkRet(<<>>, FALSE)
            /\ tier' = "returned"
            /\ UNCHANGED <<names, selectVars, entered>>
    /\ UNCHANGED <<comments, calls, fixedVars>>

FallbackReturn == TierReturn("fallback_call", "returned")

(***************************************************************************)
(* find_reviewers_from_diff                                                *)
(***************************************************************************)
\* the characters of the model in the order of their codes
Alphabet ==
    <<" ", "+", "-", "/", "@", "A", "B", "G", "T", "[", "a", "b", "c", "d", "f",
      "g", "h", "i", "l", "n", "o", "s", "t", "w", "x", "y", "z">>
CharCode(ch) == CHOOSE i \in 1..Len(Alphabet) : Alphabet[i] = ch

\* the order of String: a < b
RECURSIVE LexLess(_, _)
LexLess(a, b) ==
    IF b = <<>> THEN FALSE
    ELSE IF a = <<>> THEN TRUE
    ELSE IF a[1] = b[1] THEN LexLess(Tail(a), Tail(b))
    ELSE CharCode(a[1]) < CharCode(b[1])

\* x put at its place in the sorted sequence s
RECURSIVE SortInsert(_, _)
SortInsert(x, s) ==
    IF s = <<>> THEN <<x>>
    ELSE IF LexLess(s[1], x) THEN <<s[1]>> \o SortInsert(x, Tail(s))
    ELSE <<x>> \o s

\* Vec::sort
RECURSIVE Sort(_)
Sort(s) == IF s = <<>> THEN <<>> ELSE SortInsert(s[1], Sort(Tail(s)))

\* faulty variant: the Vec is left as it was filled
dedup_missing(s) == s

\* Vec::dedup: of consecutive equal elements the first is kept
RECURSIVE dedup(_)
dedup(s) ==
    IF Len(s) <= 1 THEN s
    ELSE IF s[1] = s[2] THEN dedup(Tail(s))
    ELSE <<s[1]>> \o dedup(Tail(s))

\* str::split('/'): the text between the '/', empty pieces included
RECURSIVE SplitSlash(_)
SplitSlash(s) ==
    IF ~ContainsChar(s, "/") THEN <<s>>
    ELSE LET i == CHOOSE k \in 1..Len(s) :
                     s[k] = "/" /\ \A j \in 1..(k - 1) : s[j] # "/"
         IN <<SubSeq(s, 1, i - 1)>> \o SplitSlash(SubSeq(s, i + 1, Len(s)))

\* faulty variant: the empty piece before a leading '/' is not counted
owner_len_of_names(owner_pattern) ==
    Len(SelectSeq(SplitSlash(owner_pattern), LAMBDA x : x # <<>>))

\* owner_pattern.split('/').count()
owner_len(owner_pattern) == Len(SplitSlash(owner_pattern))

\* add_line fails on a pattern that is no glob: an unclosed character class
is_valid_glob(owner_pattern) == ~ContainsChar(owner_pattern, "[")

\* matched_path_or_any_parents(path, false).is_ignore() for a pattern of
\* plain names: with a '/' at its start or inside, the pattern is the path
\* from the root of a parent directory or of the file; without '/', it is the
\* name of a parent directory or of the file at any depth
matched_path_or_any_parents(owner_pattern, path) ==
    LET dirs  == SplitSlash(path)
        parts == SelectSeq(SplitSlash(owner_pattern), LAMBDA x : x # <<>>)
    IN \E k \in 1..Len(dirs) :
          IF ContainsChar(owner_pattern, "/")
          THEN SubSeq(dirs, 1, k) = parts
          ELSE <<dirs[k]>> = parts

\* faulty variant: the header lines +++ and --- are counted too
is_changed_line_with_headers(line) ==
    StartsWith(line, <<"+">>) \/ StartsWith(line, <<"-">>)

\* the test of a line of the diff
is_changed_line(line) ==
    \/ (~StartsWith(line, <<"+", "+", "+">>) /\ StartsWith(line, <<"+">>))
    \/ (~StartsWith(line, <<"-", "-", "-">>) /\ StartsWith(line, <<"-">>))

\* the lines of file_diff.diff that pass the test
changed_lines(lines) == Cardinality({i \in 1..Len(lines) : is_changed_line(lines[i])})

\* the greatest element of a set of numbers, 0 for the empty set:
\* values().copied().max().unwrap_or(0)
max_or_zero(S) == IF S = {} THEN 0 ELSE CHOOSE m \in S : \A n \in S : n <= m

\* the longest owner patterns that match the path of the file
longest_owner_patterns(own, file_diff) ==
    LET longest   == {p \in DOMAIN own : matched_path_or_any_parents(p, file_diff.path)}
        max_count == max_or_zero({owner_len(p) : p \in longest})
    IN {p \in longest : owner_len(p) = max_count}

\* *counts.entry(p).or_default() += n, for every p of ps
add_counts(counts, ps, n) ==
    [p \in DOMAIN counts \cup ps |->
        (IF p \in DOMAIN counts THEN counts[p] ELSE 0) + (IF p \in ps THEN n ELSE 0)]

\* the loop over the files: each longest pattern gets 1 for the file and 1
\* for each changed line
RECURSIVE count_files(_, _, _)
count_files(own, files, counts) ==
    IF files = <<>> THEN counts
    ELSE count_files(own, Tail(files),
                     add_counts(counts, longest_owner_patterns(own, files[1]),
                                1 + changed_lines(files[1].diff)))

\* faulty variant: every pattern that has a count is taken
max_paths_all(counts) == DOMAIN counts

\* the patterns whose count is the greatest
max_paths(counts) ==
    {p \in DOMAIN counts : counts[p] = max_or_zero({counts[q] : q \in DOMAIN counts})}

\* flat_map over the patterns: their owner lists one after the other, in the
\* order the HashMap yields the patterns (the sort that follows makes the
\* order immaterial)
RECURSIVE flat_map(_, _)
flat_map(own, ps) ==
    IF ps = {} THEN <<>>
    ELSE LET p == CHOOSE x \in ps : TRUE
         IN own[p] \o flat_map(own, ps \ {p})

\* the counts after the loop
counts_of(own, files) == count_files(own, files, [p \in {} |-> 0])

\* find_reviewers_from_diff: the patterns are built for each file, so that a
\* pattern that is no glob is an error as soon as there is a file
find_reviewers_from_diff(own, files) ==
    IF files # <<>> /\ \E p \in DOMAIN own : ~is_valid_glob(p)
    THEN DiffErr
    ELSE DiffOk(dedup(Sort(flat_map(own, max_paths(counts_of(own, files))))))

(***************************************************************************)
(* handle_input and handle_command                                         *)
(***************************************************************************)
\* ctx.username, the account of the bot
bot == <<"b", "o", "t">>

\* what no action of a handler changes
handlerFixed == <<author, assignees, organization, configVars, prefVars, diffVars,
                  directive, diff_result, entered, calls, event, cmd, membership,
                  handled, otherVars>>

\* a call made to the tracker and its answer
Sent(op, arg, res) == [op |-> op, arg |-> arg, res |-> res]

\* Issue::contain_assignee on the issue of the event: the logins are compared
\* without their case
contain_assignee(user) == \E a \in assignees : ToLowercase(a) = ToLowercase(user)

\* Issue::set_assignee accepted by the tracker: the user is the assignee
tracker_set_assignee(user) == {user}

\* Issue::remove_assignees accepted by the tracker: selection is <<>> for
\* Selection::All and <<user>> for Selection::One(user)
remove_assignees(selection) ==
    IF selection = <<>> THEN {}
    ELSE {a \in assigned : ToLowercase(a) # ToLowercase(selection[1])}

\* the comment of set_assignee on an error of the tracker
FailedToSetAssignee(username) ==
    [message |-> "Failed to set assignee to {username}: {err}", arg |-> username]

\* on_vacation_warning
on_vacation_warning(username) ==
    [message |-> "{username} is on vacation.", arg |-> username]

\* the comment on a command given on a closed PR
ClosedPrComment ==
    [message |-> "Assignment is not allowed on a closed PR.", arg |-> <<>>]

\* set_assignee: what it leaves behind. A user who is an assignee already is
\* skipped; else the tracker accepts the user, or it answers with an error
\* and the comment on the failure is posted, or posting it fails too
set_assignee(username) ==
    IF contain_assignee(username)
    THEN {[assigned |-> assigned, comments |-> comments, sent |-> <<>>]}
    ELSE {[assigned |-> tracker_set_assignee(username), comments |-> comments,
           sent |-> <<Sent("set_assignee", username, "ok")>>]}
         \cup {[assigned |-> assigned, comments |-> cs,
                sent |-> <<Sent("set_assignee", username, res)>>] :
                  cs \in {comments, Append(comments, FailedToSetAssignee(username))},
                  res \in {"invalid", "error"}}

\* faulty variant: the assignee is determined for every new PR
auto_assigns_always == TRUE

\* event.issue.assignees.is_empty(): no assignee was set when the PR was opened
auto_assigns == assignees = {}

\* the welcome of a returning user, <<>> for None: nothing is said when the
\* assignee came from the r? of the PR body
welcome(r) ==
    IF r.from_comment THEN <<>>
    ELSE IF r.assignee # <<>>
    THEN <<[message |-> "r? @{assignee}", arg |-> r.assignee[1]]>>
    ELSE <<[message |-> "@{author}: no appropriate reviewer found, use r? to override",
            arg |-> author]>>

\* handle_input up to the call of determine_assignee: the diff is fetched
\* (an error or no diff ends the handler), and a PR that has an assignee is
\* left as it is
InputStart ==
    /\ hpc = "input"
    /\ \E fetched \in BOOLEAN :
          IF ~fetched
          THEN hpc' = "done" /\ hret' = "Err" /\ UNCHANGED tier
          ELSE IF auto_assigns
          THEN hpc' = "determine" /\ tier' = "directive" /\ UNCHANGED hret
          ELSE hpc' = "done" /\ hret' = "Ok" /\ UNCHANGED tier
    /\ UNCHANGED <<handlerFixed, names, selectVars, comments, ret, assigned, data,
                   labels, sent>>

\* faulty variant: ghost prevents the assignment only when it was named by
\* the r? of the PR body
prevents_assignment_by_comment(r) == r.assignee = <<ghost>> /\ r.from_comment

\* assignee.as_deref() == Some("ghost"): the placeholder account that asks
\* for no assignment and no noise
prevents_assignment(r) == r.assignee = <<ghost>>

\* handle_input after determine_assignee: an Err is passed on; ghost ends the
\* handler; else the assignee is set and the welcome is posted (a failure to
\* post it is logged)
InputFinish ==
    /\ hpc = "determine"
    /\ tier \in {"returned", "panicked"}
    /\ hpc' = "done"
    /\ IF tier = "panicked"
       THEN hret' = "Panic" /\ UNCHANGED <<assigned, comments, sent>>
       ELSE IF ret.kind = "Err"
       THEN hret' = "Err" /\ UNCHANGED <<assigned, comments, sent>>
       ELSE IF prevents_assignment(ret)
       THEN hret' = "Ok" /\ UNCHANGED <<assigned, comments, sent>>
       ELSE /\ hret' = "Ok"
            /\ \E o \in IF ret.assignee = <<>>
                        THEN {[assigned |-> assigned, comments |-> comments,
                               sent |-> <<>>]}
                        ELSE set_assignee(ret.assignee[1]),
                  posted \in BOOLEAN :
                  /\ assigned' = o.assigned
                  /\ sent' = sent \o o.sent
                  /\ comments' = IF posted THEN o.comments \o welcome(ret)
                                 ELSE o.comments
    /\ UNCHANGED <<handlerFixed, tier, names, selectVars, ret, data, labels>>

\* what is_team_member is bound to: an error of the check counts as false
is_team_member == membership = "member"

\* a comment of the bot itself is not handled
CommandFromBot ==
    /\ hpc = "command"
    /\ event.user = bot
    /\ hpc' = "done"
    /\ hret' = "Ok"
    /\ UNCHANGED <<handlerFixed, tier, names, selectVars, comments, ret, assigned,
                   data, labels, sent>>

\* faulty variant: a release on a PR is taken as a claim of the requester
pr_assignee_release_claims(c, login) ==
    CASE c.kind = "AssignUser" -> <<c.name>>
      [] c.kind = "RequestReview" -> <<c.name>>
      [] OTHER -> <<login>>

\* the match on cmd of the PR arm: <<name>> is the assignee asked for, <<>>
\* stands for the return of ReleaseAssignment
pr_assignee(c, login) ==
    CASE c.kind = "Claim" -> <<login>>
      [] c.kind = "AssignUser" -> <<c.name>>
      [] c.kind = "RequestReview" -> <<c.name>>
      [] OTHER -> <<>>

\* the label T-<team> of a team named by r?
team_label(c) ==
    IF c.kind = "RequestReview" /\ get_team_name(c.name) # <<>>
    THEN {<<"T", "-">> \o get_team_name(c.name)[1]}
    ELSE {}

\* the answers of add_labels: the label is added, it is unknown to the
\* repository (logged), or another error (passed on)
add_labels_answers(c) ==
    IF team_label(c) = {} THEN {"none"} ELSE {"added", "unknown", "error"}

\* the PR arm of handle_command up to the call of find_reviewer_from_names
CommandPr ==
    /\ hpc = "command"
    /\ event.user # bot
    /\ event.is_pr
    /\ IF ~event.is_open
       THEN /\ hpc' = "done"
            /\ \E posted \in BOOLEAN :
                  IF posted
                  THEN comments' = Append(comments, ClosedPrComment) /\ hret' = "Ok"
                  ELSE hret' = "Err" /\ UNCHANGED comments
            /\ UNCHANGED <<names, selectVars, labels>>
       ELSE IF event.action = "opened" \/ pr_assignee(cmd, event.user) = <<>>
       THEN /\ hpc' = "done"
            /\ hret' = "Ok"
            /\ UNCHANGED <<names, selectVars, labels, comments>>
       ELSE \E answer \in add_labels_answers(cmd) :
               IF answer = "error"
               THEN /\ hpc' = "done"
                    /\ hret' = "Err"
                    /\ UNCHANGED <<names, selectVars, labels, comments>>
               ELSE /\ labels' = IF answer = "added" THEN labels \cup team_label(cmd)
                                 ELSE labels
                    /\ StartCall(pr_assignee(cmd, event.user))
                    /\ hpc' = "resolve"
                    /\ UNCHANGED <<hret, comments>>
    /\ UNCHANGED <<handlerFixed, tier, ret, assigned, data, sent>>

\* the PR arm after find_reviewer_from_names: an Err is posted; a user on
\* vacation named by somebody else gets the warning; the author of the PR is
\* passed over; else the assignee is set
CommandPrReturn ==
    /\ hpc = "resolve"
    /\ pc = "done"
    /\ pc' = "idle"
    /\ hpc' = "done"
    /\ IF reviewer.kind = "Panic"
       THEN hret' = "Panic" /\ UNCHANGED <<assigned, comments, sent>>
       ELSE IF reviewer.kind # "Ok"
               \/ (is_on_vacation(reviewer.username)
                   /\ ~is_self_assign(reviewer.username, event.user))
       THEN /\ \E posted \in BOOLEAN :
                  IF posted
                  THEN /\ hret' = "Ok"
                       /\ comments' =
                            Append(comments,
                                   IF reviewer.kind # "Ok" THEN to_string(reviewer)
                                   ELSE on_vacation_warning(reviewer.username))
                  ELSE hret' = "Err" /\ UNCHANGED comments
            /\ UNCHANGED <<assigned, sent>>
       ELSE IF ToLowercase(author) = ToLowercase(reviewer.username)
       THEN hret' = "Ok" /\ UNCHANGED <<assigned, comments, sent>>
       ELSE /\ hret' = "Ok"
            /\ \E o \in set_assignee(reviewer.username) :
                  /\ assigned' = o.assigned
                  /\ comments' = o.comments
                  /\ sent' = sent \o o.sent
    /\ UNCHANGED <<handlerFixed, tier, names, expandVars, candidates, result,
                   reviewer, ret, data, labels>>

\* faulty variant: the team membership of the requester is not asked for
issue_to_assign_unchecked(c, login) ==
    CASE c.kind = "Claim" -> <<login>>
      [] c.kind = "AssignUser" -> <<c.name>>
      [] OTHER -> <<>>

\* the match on cmd of the issue arm: <<user>> is to_assign, <<>> stands for
\* bail (another user named by somebody who is no team member, r? on an issue)
issue_to_assign(c, login) ==
    CASE c.kind = "Claim" -> <<login>>
      [] c.kind = "AssignUser" ->
            IF ~is_team_member /\ c.name # login THEN <<>> ELSE <<c.name>>
      [] OTHER -> <<>>

\* the end of the issue arm that changes nothing
IssueUnchanged(r) == [assigned |-> assigned, data |-> data, hret |-> r, sent |-> <<>>]

\* faulty variant: everybody may release the assignment of a user
may_release_anyone(current, login) == TRUE

\* current == event.user().login || is_team_member
may_release(current, login) == current = login \/ is_team_member

\* remove_assignees and the write of AssignData { user: None }: each call
\* can fail and ends the handler then
ReleaseEnds(selection) ==
    {[assigned |-> assigned, data |-> data, hret |-> "Err",
      sent |-> <<Sent("remove_assignees", selection, "error")>>],
     [assigned |-> remove_assignees(selection), data |-> data, hret |-> "Err",
      sent |-> <<Sent("remove_assignees", selection, "ok"),
                 Sent("apply", <<>>, "error")>>],
     [assigned |-> remove_assignees(selection), data |-> <<>>, hret |-> "Ok",
      sent |-> <<Sent("remove_assignees", selection, "ok"),
                 Sent("apply", <<>>, "ok")>>]}

\* ReleaseAssignment on an issue
IssueRelease ==
    IF data # <<>>
    THEN IF may_release(data[1], event.user)
         THEN ReleaseEnds(<<>>)
         ELSE {IssueUnchanged("Err")}
    ELSE IF contain_assignee(event.user)
         THEN ReleaseEnds(<<event.user>>)
         ELSE {IssueUnchanged("Err")}

\* faulty variant: the assignment is made over again
is_reassignment_never(to_assign) == FALSE

\* Don't re-assign if already assigned, e.g. on comment edit
is_reassignment(to_assign) == contain_assignee(to_assign)

\* faulty variant: the account that is assigned is the one recorded
assign_data_of_assignee(to_assign, assignee) == <<assignee>>

\* AssignData { user: Some(to_assign) }, whoever is assigned in the end
assign_data(to_assign, assignee) == <<to_assign>>

\* the assignment of to_assign on an issue: an assignee is left as it is;
\* else the data is written, then the tracker is asked to assign the user,
\* and that the bot when it answers InvalidAssignee, and the data is written
\* once more with the comment; each call can fail and ends the handler then
\* (a tracker that has refused the bot as to_assign does not accept it in
\* the next call)
IssueAssign(to_assign) ==
    IF is_reassignment(to_assign)
    THEN {IssueUnchanged("Ok")}
    ELSE LET written == Sent("apply", assign_data(to_assign, to_assign), "ok")
             invalid == Sent("set_assignee", to_assign, "invalid")
         IN {[assigned |-> assigned, data |-> data, hret |-> "Err",
              sent |-> <<Sent("apply", assign_data(to_assign, to_assign), "error")>>],
             [assigned |-> tracker_set_assignee(to_assign),
              data |-> assign_data(to_assign, to_assign), hret |-> "Ok",
              sent |-> <<written, Sent("set_assignee", to_assign, "ok")>>],
             [assigned |-> assigned,
              data |-> assign_data(to_assign, to_assign), hret |-> "Err",
              sent |-> <<written, Sent("set_assignee", to_assign, "error")>>]}
            \cup
            {[assigned |-> assigned,
              data |-> assign_data(to_assign, to_assign), hret |-> "Err",
              sent |-> <<written, invalid, Sent("set_assignee", bot, res)>>] :
                 res \in {"invalid", "error"}}
            \cup
            {[assigned |-> tracker_set_assignee(bot),
              data |-> IF res = "ok" THEN assign_data(to_assign, bot)
                       ELSE assign_data(to_assign, to_assign),
              hret |-> IF res = "ok" THEN "Ok" ELSE "Err",
              sent |-> <<written, invalid, Sent("set_assignee", bot, "ok"),
                         Sent("apply", assign_data(to_assign, bot), res)>>] :
                 res \in IF to_assign = bot THEN {} ELSE {"ok", "error"}}

\* the issue arm of handle_command
CommandIssue ==
    /\ hpc = "command"
    /\ event.user # bot
    /\ ~event.is_pr
    /\ hpc' = "done"
    /\ \E o \in IF cmd.kind = "ReleaseAssignment" THEN IssueRelease
                ELSE IF issue_to_assign(cmd, event.user) = <<>>
                THEN {IssueUnchanged("Err")}
                ELSE IssueAssign(issue_to_assign(cmd, event.user)[1]) :
          /\ assigned' = o.assigned
          /\ data' = o.data
          /\ hret' = o.hret
          /\ sent' = sent \o o.sent
    /\ UNCHANGED <<handlerFixed, tier, names, selectVars, comments, ret, labels>>

(***************************************************************************)
(* pr_behind_commits: handle                                               *)
(***************************************************************************)
\* const DEFAULT_BEHIND_THRESHOLD: u32 = 100
DEFAULT_BEHIND_THRESHOLD == 100

\* config.threshold.unwrap_or(DEFAULT_BEHIND_THRESHOLD): config is <<n>> or <<>>
behind_threshold(config) ==
    IF config = <<>> THEN DEFAULT_BEHIND_THRESHOLD ELSE config[1]

\* faulty variant: a warning is posted for every count at the threshold
warns_again_always(count, comment, behind_by) == TRUE

\* state.data.last_behind_count != Some(behind_by)
\*     || state.data.last_warned_comment.is_none()
warns_again(count, comment, behind_by) == count # <<behind_by>> \/ comment = <<>>

\* the warning comment: its text names the number of commits
behind_warning(behind_by) == <<"behind", behind_by>>

\* Issue::hide_comment accepted by the tracker: the comment is hidden, whether
\* it was before or not
hide_comment(id) == hidden \cup {id}

\* what the handler has seen when it compares behind_by with the threshold
Observed(behind_by, threshold) == [behind_by |-> behind_by, threshold |-> threshold]

\* the handler from the comparison of behind_by with the threshold on, the
\* stored state being loaded: each call to the tracker and the save of the
\* state can fail and ends the handler then; the comment posted last has the
\* id Len(comments)
BehindEnds(behind_by, threshold) ==
    LET id == last_warned_comment
        end(r, h, c, s) ==
            [hret |-> r, hidden |-> h, comments |-> c, comment |-> last_warned_comment,
             count |-> last_behind_count, sent |-> s]
        hide(reason, res) == Sent("hide_comment", <<id[1], reason>>, res)
        save(res) == Sent("save", <<>>, res)
        unchanged == end("Ok", hidden, comments, <<>>)
    IN IF behind_by >= threshold
       THEN IF warns_again(last_behind_count, last_warned_comment, behind_by)
            THEN LET hides == IF id = <<>> THEN <<>> ELSE <<hide("Outdated", "ok")>>
                     hidden1 == IF id = <<>> THEN hidden ELSE hide_comment(id[1])
                     posted == Append(comments, behind_warning(behind_by))
                     post(res) == Sent("post_comment", behind_warning(behind_by), res)
                 IN {end("Err", hidden, comments, <<hide("Outdated", "error")>>) :
                        x \in IF id = <<>> THEN {} ELSE {1}}
                    \cup
                    {end("Err", hidden1, comments, hides \o <<post("error")>>),
                     end("Err", hidden1, posted, hides \o <<post("ok"), save("error")>>),
                     [hret |-> "Ok", hidden |-> hidden1, comments |-> posted,
                      comment |-> <<Len(posted)>>, count |-> <<behind_by>>,
                      sent |-> hides \o <<post("ok"), save("ok")>>]}
            ELSE {unchanged}
       ELSE IF id # <<>>
            THEN {end("Err", hidden, comments, <<hide("Resolved", "error")>>),
                  end("Err", hide_comment(id[1]), comments,
                      <<hide("Resolved", "ok"), save("error")>>),
                  [hret |-> "Ok", hidden |-> hide_comment(id[1]), comments |-> comments,
                   comment |-> <<>>, count |-> <<>>,
                   sent |-> <<hide("Resolved", "ok"), save("ok")>>]}
            ELSE {unchanged}

\* the events a PR or an issue gets
BehindActions == {"opened", "synchronize", "closed"}
\* config.threshold
BehindConfigs == {<<>>, <<2>>}
\* the answers of commits_behind_base: an error, None, Some(count)
BehindCounts == {1, 2, 3, DEFAULT_BEHIND_THRESHOLD}
BehindFetches ==
    {[kind |-> "Err", count |-> 0], [kind |-> "None", count |-> 0]}
        \cup {[kind |-> "Some", count |-> n] : n \in BehindCounts}

\* handle of pr_behind_commits for one event
BehindHandle ==
    /\ hpc = "behind"
    /\ handled < MaxEvents
    /\ handled' = handled + 1
    /\ \E a \in BehindActions, pr \in BOOLEAN, config \in BehindConfigs,
          fetched \in BehindFetches, loaded \in {"ok", "repository", "load"} :
          /\ event' = Event(a, author, pr, TRUE)
          /\ IF a \notin {"opened", "synchronize"} \/ ~pr \/ fetched.kind = "None"
             THEN /\ hret' = "Ok"
                  /\ sent' = <<>>
                  /\ observed' = <<>>
                  /\ UNCHANGED <<hidden, comments, last_warned_comment, last_behind_count>>
             ELSE IF fetched.kind = "Err" \/ loaded # "ok"
             THEN /\ hret' = "Err"
                  /\ sent' = <<>>
                  /\ observed' = <<>>
                  /\ UNCHANGED <<hidden, comments, last_warned_comment, last_behind_count>>
             ELSE \E o \in BehindEnds(fetched.count, behind_threshold(config)) :
                     /\ hret' = o.hret
                     /\ sent' = o.sent
                     /\ observed' = Observed(fetched.count, behind_threshold(config))
                     /\ hidden' = o.hidden
                     /\ comments' = o.comments
                     /\ last_warned_comment' = o.comment
                     /\ last_behind_count' = o.count
    /\ UNCHANGED <<names, author, assignees, organization, configVars, prefVars,
                   directive, diff_result, tier, ret, entered, calls, diffVars,
                   selectVars, cmd, membership, assigned, data, labels, hpc,
                   relnotes_issue, created, answers, warning>>

(***************************************************************************)
(* relnotes: handle                                                        *)
(***************************************************************************)
\* "Tracking issue for release notes"
TrackingTitle ==
    <<"T", "r", "a", "c", "k", "i", "n", "g", " ", "i", "s", "s", "u",
      "e", " ", "f", "o", "r", " ", "r", "e", "l", "e", "a", "s", "e",
      " ", "n", "o", "t", "e", "s">>

\* faulty variant: every title is the one of a tracking issue
is_tracking_title_any(title) == TRUE

\* e.issue.title.starts_with("Tracking issue for release notes")
is_tracking_title(title) == StartsWith(title, TrackingTitle)

\* repo.organization == "rust-lang" && repo.repository == "rust"
is_rust_repo(e) == e.organization = "rust-lang" /\ e.repository = "rust"

\* the labels that ask for a tracking issue
RelnotesLabels == {"relnotes", "relnotes-perf", "finished-final-comment-period"}

\* an event as relnotes reads it: kind is "Issue" or another kind of event,
\* label is the one of Labeled, milestone is <<m>> or <<>>
RelnotesEvent(k, org, repo, a, label, title, milestone) ==
    [kind |-> k, organization |-> org, repository |-> repo, action |-> a,
     label |-> label, title |-> title, milestone |-> milestone]

\* a tracking issue as the tracker holds it
TrackingIssue(milestone) == [milestone |-> milestone]

\* GithubClient::set_milestone accepted by the tracker
set_milestone(milestone, number) == [created EXCEPT ![number] = TrackingIssue(milestone)]

\* the handler once the state is loaded: each call to the tracker and the
\* save of the state can fail and ends the handler then; the issue created
\* gets the number Len(created) + 1
RelnotesEnds(e) ==
    LET end(r, c, s) == [hret |-> r, created |-> c, relnotes_issue |-> relnotes_issue,
                         sent |-> s]
        unchanged == end("Ok", created, <<>>)
    IN IF relnotes_issue # <<>>
       THEN IF e.action = "milestoned" /\ e.milestone # <<>>
            THEN LET call(res) == Sent("set_milestone", <<e.milestone[1], relnotes_issue[1]>>, res)
                 IN {end("Err", created, <<call("error")>>),
                     end("Ok", set_milestone(e.milestone, relnotes_issue[1]), <<call("ok")>>)}
            ELSE {unchanged}
       ELSE IF e.action = "labeled" /\ e.label \in RelnotesLabels
       THEN LET number == Len(created) + 1
                opened == Append(created, TrackingIssue(<<>>))
                new(res) == Sent("new_issue", <<>>, res)
                call(res) == Sent("set_milestone", <<e.milestone[1], number>>, res)
                save(res) == Sent("save", <<number>>, res)
                milestoned == IF e.milestone = <<>> THEN opened
                              ELSE Append(created, TrackingIssue(e.milestone))
                made == IF e.milestone = <<>> THEN <<new("ok")>>
                         ELSE <<new("ok"), call("ok")>>
            IN {end("Err", created, <<new("error")>>)}
               \cup
               {end("Err", opened, <<new("ok"), call("error")>>) :
                   x \in IF e.milestone = <<>> THEN {} ELSE {1}}
               \cup
               {end("Err", milestoned, made \o <<save("error")>>),
                [hret |-> "Ok", created |-> milestoned, relnotes_issue |-> <<number>>,
                 sent |-> made \o <<save("ok")>>]}
       ELSE {unchanged}

\* the repositories, the actions, the labels, the titles and the milestones
\* of the events
RelnotesRepos == {<<"rust-lang", "rust">>, <<"rust-lang", "cargo">>, <<"other", "rust">>}
RelnotesActions == {"labeled", "milestoned", "opened"}
EventLabels == {"relnotes", "relnotes-perf", "finished-final-comment-period", "bug"}
Titles == {TrackingTitle, TrackingTitle \o <<" ", "o", "f">>, ToLowercase(TrackingTitle),
           SubSeq(TrackingTitle, 1, 8), <<"F", "i", "x">>}
Milestones == {<<>>, <<"1.80">>}

\* handle of relnotes for one event of the issue or PR
RelnotesHandle ==
    /\ hpc = "relnotes"
    /\ handled < MaxEvents
    /\ handled' = handled + 1
    /\ \E k \in {"Issue", "IssueComment"}, a \in RelnotesActions, label \in EventLabels,
          title \in Titles, milestone \in Milestones, loaded \in BOOLEAN :
          /\ a # "labeled" => label = "bug"
          /\ event' = RelnotesEvent(k, event.organization, event.repository, a,
                                    IF a = "labeled" THEN label ELSE "", title, milestone)
          /\ IF k # "Issue" \/ ~is_rust_repo(event') \/ is_tracking_title(title)
             THEN /\ hret' = "Ok"
                  /\ sent' = <<>>
                  /\ UNCHANGED <<created, relnotes_issue>>
             ELSE IF ~loaded
             THEN /\ hret' = "Err"
                  /\ sent' = <<>>
                  /\ UNCHANGED <<created, relnotes_issue>>
             ELSE \E o \in RelnotesEnds(event') :
                     /\ hret' = o.hret
                     /\ sent' = o.sent
                     /\ created' = o.created
                     /\ relnotes_issue' = o.relnotes_issue
    /\ UNCHANGED <<issueVars, configVars, prefVars, assignVars, diffVars, selectVars,
                   cmd, membership, assigned, data, labels, hpc,
                   last_warned_comment, last_behind_count, hidden, observed,
                   answers, warning>>

(***************************************************************************)
(* check_commits/behind_master: behind_master                              *)
(***************************************************************************)
\* "Auto merge of #"
AutoMerge ==
    <<"A", "u", "t", "o", " ", "m", "e", "r", "g", "e", " ", "o", "f", " ", "#">>
\* "Rollup merge of #"
RollupMerge ==
    <<"R", "o", "l", "l", "u", "p", " ", "m", "e", "r", "g", "e", " ", "o", "f", " ", "#">>

\* message.starts_with("Auto merge of #")
is_auto_merge(message) == StartsWith(message, AutoMerge)

\* faulty variant: the rollup merges are not counted
is_rollup_merge_never(message) == FALSE

\* the else-if of the loop: message.starts_with("Rollup merge of #") for a
\* message that is no auto merge
is_rollup_merge(message) == ~is_auto_merge(message) /\ StartsWith(message, RollupMerge)

\* the answers of the client: Result and Option as records
AnswerErr == [kind |-> "Err"]
AnswerNone == [kind |-> "None"]
TooOld(days_old) == [kind |-> "Some", days_old |-> days_old]
Comparison(behind_by, commits) == [kind |-> "Ok", behind_by |-> behind_by, commits |-> commits]

\* what behind_master returns: None or Some(text), the text given by the
\* numbers it is formatted from
ReturnNone == [kind |-> "None"]
AgeWarning(days_old) == [kind |-> "Some", text |-> <<"age", days_old>>]
MergeWarning(count, auto, rollup) == [kind |-> "Some", text |-> <<"merge", count, auto, rollup>>]

\* behind_master(age_threshold, merge_commits_threshold, event, client): a
\* holds event.issue.is_pr() and what the client answers to repository,
\* is_parent_commit_too_old(age_threshold) and branch_comparison
behind_master(merge_commits_threshold, a) ==
    IF ~a.is_pr THEN ReturnNone
    ELSE IF a.repository.kind = "Err" THEN ReturnNone
    ELSE IF a.parent.kind = "Some" THEN AgeWarning(a.parent.days_old)
    ELSE IF a.comparison.kind = "Err" THEN ReturnNone
    ELSE IF a.comparison.behind_by < merge_commits_threshold THEN ReturnNone
    ELSE LET auto_merge_commits == SelectSeq(a.comparison.commits, is_auto_merge)
             rollup_merge_commits == SelectSeq(a.comparison.commits, is_rollup_merge)
             merge_commits_count == Len(auto_merge_commits) + Len(rollup_merge_commits)
         IN IF merge_commits_count >= merge_commits_threshold
            THEN MergeWarning(merge_commits_count, Len(auto_merge_commits),
                              Len(rollup_merge_commits))
            ELSE ReturnNone

\* the call of behind_master for an event
BehindMaster ==
    /\ hpc = "master"
    /\ hpc' = "done"
    /\ warning' = behind_master(answers.merge_commits_threshold, answers)
    /\ UNCHANGED <<issueVars, configVars, prefVars, assignVars, diffVars, selectVars,
                   event, cmd, membership, assigned, data, labels, hret, sent, handled,
                   last_warned_comment, last_behind_count, hidden, observed,
                   relnotes_issue, created, answers>>

(***************************************************************************)
(* Inputs.                                                                 *)
(***************************************************************************)
NamePool == {al, atAl, bo, cy, ghost, grpC, orgC, teamW, slashed}

RECURSIVE SeqsUpTo(_, _)
\* the sequences over S of length 1..n
SeqsUpTo(S, n) ==
    IF n = 0 THEN {}
    ELSE SeqsUpTo(S, n - 1) \cup [1..n -> S]

Requests     == SeqsUpTo(NamePool, MaxNames)
Authors      == {AlUpper, ghost, zed}
AssigneeSets == {{}, {al, BoUpper}}
VacationSets == {{}, {al, bo, di}}

\* nested groups, a team sharing a group's name
ConfigNested ==
    [groups |-> (grpC :> <<al, atBo, cy, grpN>>) @@ (grpN :> <<bo, di>>),
     teams  |-> (teamW :> <<bo, cy>>) @@ (grpC :> <<di>>)]
\* groups that refer to each other and to themselves
ConfigCyclic ==
    [groups |-> (grpC :> <<grpX, grpX>>) @@ (grpX :> <<grpC, grpX>>),
     teams  |-> [t \in {} |-> <<>>]]
\* a group holding ghost, a group reached by an organization-qualified name
ConfigGhost ==
    [groups |-> (grpC :> <<ghost, al, grpN>>) @@ (grpN :> <<orgC, bo, grpN>>),
     teams  |-> (teamW :> <<AlUpper>>)]
Configs == {ConfigNested, ConfigCyclic, ConfigGhost}

\* a group and a team of one name with different members
ConfigPrecedence ==
    [groups |-> (grpC :> <<al>>),
     teams  |-> (grpC :> <<bo>>) @@ (teamW :> <<cy, di>>)]
\* the names and configurations of the expansion alone
ExpandPool    == {al, atAl, bo, grpC, grpX, orgC, atOrgC, teamW, tW, orgAl, slashed}
ExpandConfigs == {ConfigNested, ConfigCyclic, ConfigGhost, ConfigPrecedence}

\* review preferences as the tests set them: capacity None is {}, Some(c) is {c}
NoPrefs     == [stored |-> FALSE, capacity |-> {}, rotation_mode |-> "OnRotation"]
PrefOptions ==
    {NoPrefs} \cup
    [stored : {TRUE},
     capacity : {{}} \cup {{c} : c \in 0..MaxCapacity},
     rotation_mode : {"OnRotation", "OffRotation"}]
PrefUsers   == {cy}
Workqueues  == {0..(n - 1) : n \in 0..MaxQueue}

\* the other handlers have not run
NoOther ==
    /\ last_warned_comment = <<>>
    /\ last_behind_count = <<>>
    /\ hidden = {}
    /\ observed = <<>>
    /\ relnotes_issue = <<>>
    /\ created = <<>>
    /\ answers = <<>>
    /\ warning = <<>>

\* no handler is under way: the tracker holds what the event shows
NoHandler ==
    /\ event = NoEvent
    /\ cmd = NoCommand
    /\ membership = "member"
    /\ assigned = assignees
    /\ data = <<>>
    /\ labels = {}
    /\ hpc = "none"
    /\ hret = "none"
    /\ sent = <<>>
    /\ handled = 0
    /\ NoOther

\* the resolution call on its own, not made by determine_assignee
NoDetermine ==
    /\ directive = <<>>
    /\ diff_result = DiffOk(<<>>)
    /\ tier = "none"
    /\ comments = <<>>
    /\ ret = NoRet
    /\ entered = <<>>
    /\ calls = <<>>
    /\ owners = [p \in {} |-> <<>>]
    /\ diff = <<>>

\* the state at the entry of find_reviewer_from_names
InitCall ==
    /\ pc = "expand"
    /\ to_be_expanded = names
    /\ expanded = {}
    /\ seen_names = {}
    /\ expansion_happened = FALSE
    /\ pushes = [g \in DOMAIN adhoc_groups |-> 0]
    /\ iterations = 0
    /\ candidates = {}
    /\ result = NoOutcome
    /\ reviewer = NoOutcome

\* any request, issue and configuration; no review preference stored
Init ==
    /\ names \in Requests
    /\ author \in Authors
    /\ assignees \in AssigneeSets
    /\ organization = <<"o">>
    /\ users_on_vacation \in VacationSets
    /\ \E k \in Configs : adhoc_groups = k.groups /\ teams = k.teams
    /\ review_prefs = [u \in PrefUsers |-> NoPrefs]
    /\ workqueue = [u \in PrefUsers |-> {}]
    /\ InitCall
    /\ NoDetermine
    /\ NoHandler

\* any request and any stored preference and workqueue of one user
InitPrefs ==
    /\ names \in Requests
    /\ author = zed
    /\ assignees = {}
    /\ organization = <<"o">>
    /\ users_on_vacation = {}
    /\ adhoc_groups = ConfigNested.groups
    /\ teams = ConfigNested.teams
    /\ review_prefs \in [PrefUsers -> PrefOptions]
    /\ workqueue \in [PrefUsers -> Workqueues]
    /\ InitCall
    /\ NoDetermine
    /\ NoHandler

\* any request over the names of the expansion; nobody is excluded
InitExpand ==
    /\ names \in SeqsUpTo(ExpandPool, MaxNames)
    /\ author = zed
    /\ assignees = {}
    /\ organization = <<"o">>
    /\ users_on_vacation = {}
    /\ \E k \in ExpandConfigs : adhoc_groups = k.groups /\ teams = k.teams
    /\ review_prefs = [u \in PrefUsers |-> NoPrefs]
    /\ workqueue = [u \in PrefUsers |-> {}]
    /\ InitCall
    /\ NoDetermine
    /\ NoHandler

Next ==
    \/ ExpandGroup
    \/ ExpandTeam
    \/ ExpandTeamNotFound
    \/ ExpandUser
    \/ FilterCandidates
    \/ ReturnCandidates
    \/ SelectReviewer

Spec      == Init /\ [][Next]_vars
SpecPrefs == InitPrefs /\ [][Next]_vars
SpecExpand == InitExpand /\ [][Next]_vars

\* a fallback group that can yield a reviewer; c holds the author al
ConfigFallback ==
    [groups |-> (fallback :> <<bo, cy>>) @@ (grpC :> <<al, bo>>),
     teams  |-> (teamW :> <<bo>>)]
\* no fallback group
ConfigNoFallback ==
    [groups |-> (grpC :> <<al, bo>>),
     teams  |-> (teamW :> <<bo>>)]
AssignConfigs   == {ConfigFallback, ConfigNoFallback}
AssignAuthors   == {AlUpper, zed}
AssignVacations == {{}, {bo}, {bo, cy}}
Directives      == {<<>>, <<al>>, <<bo>>, <<grpC>>, <<slashed>>, <<ghost>>}
DiffResults     ==
    {DiffErr, DiffOk(<<>>), DiffOk(<<al>>), DiffOk(<<bo>>), DiffOk(<<bo, cy>>),
     DiffOk(<<slashed>>), DiffOk(<<teamW>>)}

\* the diff of a file: the two header lines, k changed lines, a context line
DiffText(k) ==
    <<lineOld, lineNew>>
    \o [i \in 1..k |-> IF i % 2 = 1 THEN lineAdd ELSE lineDel]
    \o <<lineCtx>>
FileDiff(path, k) == [path |-> path, diff |-> DiffText(k)]

\* an owners map and a diff for each of the DiffResults
AssignDiffInputs ==
    {[owners |-> (patA :> list), diff |-> <<FileDiff(pathAF, 1)>>] :
        list \in {<<al>>, <<bo>>, <<cy, bo>>, <<slashed>>, <<teamW>>}}
    \cup {[owners |-> (patA :> <<al>>), diff |-> <<>>],
          [owners |-> (patBad :> <<al>>), diff |-> <<FileDiff(pathAF, 1)>>]}

\* the state at the entry of determine_assignee: handle_input calls it when
\* the PR has no assignee; no resolution call is under way
InitAssign ==
    /\ names = <<>>
    /\ author \in AssignAuthors
    /\ assignees = {}
    /\ organization = <<"o">>
    /\ users_on_vacation \in AssignVacations
    /\ \E k \in AssignConfigs : adhoc_groups = k.groups /\ teams = k.teams
    /\ review_prefs = [u \in PrefUsers |-> NoPrefs]
    /\ workqueue = [u \in PrefUsers |-> {}]
    /\ pc = "idle"
    /\ to_be_expanded = <<>>
    /\ expanded = {}
    /\ seen_names = {}
    /\ expansion_happened = FALSE
    /\ pushes = [g \in DOMAIN adhoc_groups |-> 0]
    /\ iterations = 0
    /\ candidates = {}
    /\ result = NoOutcome
    /\ reviewer = NoOutcome
    /\ directive \in Directives
    /\ \E io \in AssignDiffInputs : owners = io.owners /\ diff = io.diff
    /\ diff_result = find_reviewers_from_diff(owners, diff)
    /\ diff_result \in DiffResults
    /\ tier = "directive"
    /\ comments = <<>>
    /\ ret = NoRet
    /\ entered = <<>>
    /\ calls = <<>>
    /\ NoHandler

NextAssign ==
    \/ DirectiveTier
    \/ DirectiveReturn
    \/ DiffTier
    \/ DiffReturn
    \/ FallbackTier
    \/ FallbackReturn
    \/ ExpandGroup
    \/ ExpandTeam
    \/ ExpandTeamNotFound
    \/ ExpandUser
    \/ FilterCandidates
    \/ ReturnCandidates
    \/ SelectReviewer

SpecAssign == InitAssign /\ [][NextAssign]_vars

\* owners maps: nested directories, two patterns of one depth on one file,
\* groups as owners, a pattern that is no glob
OwnNone   == [p \in {} |-> <<>>]
OwnDeep   == (patA :> <<cy, al>>) @@ (patAB :> <<bo>>) @@ (patB :> <<teamW>>)
OwnTie    == (patA :> <<cy, al>>) @@ (patRelAB :> <<teamW, al>>)
OwnGroups == (patA :> <<grpC>>) @@ (patAB :> <<slashed>>)
OwnBad    == (patA :> <<al>>) @@ (patBad :> <<bo>>)
OwnerMaps == {OwnNone, OwnDeep, OwnTie, OwnGroups, OwnBad}

FileDiffs == {FileDiff(path, k) : path \in {pathAF, pathABF, pathG}, k \in 0..MaxLines}
Diffs     == {<<>>} \cup SeqsUpTo(FileDiffs, MaxFiles)

\* determine_assignee on a PR without r? directive: any owners map and diff
InitDiff ==
    /\ names = <<>>
    /\ author = zed
    /\ assignees = {}
    /\ organization = <<"o">>
    /\ users_on_vacation = {}
    /\ adhoc_groups = ConfigFallback.groups
    /\ teams = ConfigFallback.teams
    /\ review_prefs = [u \in PrefUsers |-> NoPrefs]
    /\ workqueue = [u \in PrefUsers |-> {}]
    /\ pc = "idle"
    /\ to_be_expanded = <<>>
    /\ expanded = {}
    /\ seen_names = {}
    /\ expansion_happened = FALSE
    /\ pushes = [g \in DOMAIN adhoc_groups |-> 0]
    /\ iterations = 0
    /\ candidates = {}
    /\ result = NoOutcome
    /\ reviewer = NoOutcome
    /\ directive = <<>>
    /\ owners \in OwnerMaps
    /\ diff \in Diffs
    /\ diff_result = find_reviewers_from_diff(owners, diff)
    /\ tier = "directive"
    /\ comments = <<>>
    /\ ret = NoRet
    /\ entered = <<>>
    /\ calls = <<>>
    /\ NoHandler

NextDiff ==
    \/ DirectiveTier
    \/ DiffTier
    \/ DiffReturn
    \/ FallbackTier
    \/ FallbackReturn
    \/ ExpandGroup
    \/ ExpandTeam
    \/ ExpandTeamNotFound
    \/ ExpandUser
    \/ FilterCandidates
    \/ ReturnCandidates
    \/ SelectReviewer

SpecDiff == InitDiff /\ [][NextDiff]_vars

\* the assignees a new PR can show: none, or one set by hand
InputAssignees == {{}, {cy}}
\* a fallback group that holds ghost
ConfigGhostFallback ==
    [groups |-> (fallback :> <<ghost, bo>>) @@ (grpC :> <<al, bo>>),
     teams  |-> (teamW :> <<bo>>)]
InputConfigs == AssignConfigs \cup {ConfigGhostFallback}
\* ghost as the owner of the changed file
InputDiffInputs ==
    AssignDiffInputs
    \cup {[owners |-> (patA :> <<ghost>>), diff |-> <<FileDiff(pathAF, 1)>>]}

\* handle_input is given the event of a newly opened PR
InitInput ==
    /\ names = <<>>
    /\ author \in AssignAuthors
    /\ assignees \in InputAssignees
    /\ organization = <<"o">>
    /\ users_on_vacation \in AssignVacations
    /\ \E k \in InputConfigs : adhoc_groups = k.groups /\ teams = k.teams
    /\ review_prefs = [u \in PrefUsers |-> NoPrefs]
    /\ workqueue = [u \in PrefUsers |-> {}]
    /\ pc = "idle"
    /\ to_be_expanded = <<>>
    /\ expanded = {}
    /\ seen_names = {}
    /\ expansion_happened = FALSE
    /\ pushes = [g \in DOMAIN adhoc_groups |-> 0]
    /\ iterations = 0
    /\ candidates = {}
    /\ result = NoOutcome
    /\ reviewer = NoOutcome
    /\ directive \in Directives
    /\ \E io \in InputDiffInputs : owners = io.owners /\ diff = io.diff
    /\ diff_result = find_reviewers_from_diff(owners, diff)
    /\ tier = "none"
    /\ comments = <<>>
    /\ ret = NoRet
    /\ entered = <<>>
    /\ calls = <<>>
    /\ event = Event("opened", author, TRUE, TRUE)
    /\ cmd = NoCommand
    /\ membership = "member"
    /\ assigned = assignees
    /\ data = <<>>
    /\ labels = {}
    /\ hpc = "input"
    /\ hret = "none"
    /\ sent = <<>>
    /\ handled = 0
    /\ NoOther

NextInput ==
    \/ InputStart
    \/ InputFinish
    \/ DirectiveTier
    \/ DirectiveReturn
    \/ DiffTier
    \/ DiffReturn
    \/ FallbackTier
    \/ FallbackReturn
    \/ ExpandGroup
    \/ ExpandTeam
    \/ ExpandTeamNotFound
    \/ ExpandUser
    \/ FilterCandidates
    \/ ReturnCandidates
    \/ SelectReviewer

SpecInput == InitInput /\ [][NextInput]_vars

\* the commands of a comment
Commands ==
    {Claim, ReleaseAssignment, AssignUser(al), AssignUser(bo), AssignUser(cy),
     AssignUser(bot), RequestReview(bo), RequestReview(grpC), RequestReview(teamW),
     RequestReview(slashed)}
\* who writes the comment
Requesters == {AlUpper, bo, cy, bot}
\* the events that carry a command: a comment on an issue, on an open PR, on a
\* closed PR, and the opening of an issue or of a PR with the command in its body
CommandEvents(u) ==
    {Event("comment", u, FALSE, TRUE), Event("comment", u, TRUE, TRUE),
     Event("comment", u, TRUE, FALSE), Event("opened", u, FALSE, TRUE),
     Event("opened", u, TRUE, TRUE)}
\* the assignees the issue has when the command comes
CommandAssignees == {{}, {bo}, {bot}, {bo, cy}}
\* the AssignData of the issue body
CommandData == {<<>>, <<bo>>, <<cy>>}

\* handle_command is given the event of a comment with its command
InitCommand ==
    /\ names = <<>>
    /\ author \in AssignAuthors
    /\ assignees \in CommandAssignees
    /\ organization = <<"o">>
    /\ users_on_vacation \in {{}, {bo}}
    /\ adhoc_groups = ConfigFallback.groups
    /\ teams = ConfigFallback.teams
    /\ review_prefs = [u \in PrefUsers |-> NoPrefs]
    /\ workqueue = [u \in PrefUsers |-> {}]
    /\ pc = "idle"
    /\ to_be_expanded = <<>>
    /\ expanded = {}
    /\ seen_names = {}
    /\ expansion_happened = FALSE
    /\ pushes = [g \in DOMAIN adhoc_groups |-> 0]
    /\ iterations = 0
    /\ candidates = {}
    /\ result = NoOutcome
    /\ reviewer = NoOutcome
    /\ directive = <<>>
    /\ owners = OwnNone
    /\ diff = <<>>
    /\ diff_result = DiffOk(<<>>)
    /\ tier = "none"
    /\ comments = <<>>
    /\ ret = NoRet
    /\ entered = <<>>
    /\ calls = <<>>
    /\ \E u \in Requesters : event \in CommandEvents(u)
    /\ cmd \in Commands
    /\ membership \in {"member", "none", "error"}
    /\ assigned = assignees
    /\ data \in IF event.is_pr THEN {<<>>} ELSE CommandData
    /\ labels = {}
    /\ hpc = "command"
    /\ hret = "none"
    /\ sent = <<>>
    /\ handled = 0
    /\ NoOther

NextCommand ==
    \/ CommandFromBot
    \/ CommandPr
    \/ CommandPrReturn
    \/ CommandIssue
    \/ ExpandGroup
    \/ ExpandTeam
    \/ ExpandTeamNotFound
    \/ ExpandUser
    \/ FilterCandidates
    \/ ReturnCandidates
    \/ SelectReviewer

SpecCommand == InitCommand /\ [][NextCommand]_vars

\* the event is delivered once more (the comment was edited, the delivery is
\* repeated) and shows the issue as the tracker holds it now
Redeliver ==
    /\ hpc = "done"
    /\ handled < MaxDeliveries
    /\ handled' = handled + 1
    /\ assignees' = assigned
    /\ hpc' = "command"
    /\ hret' = "none"
    /\ sent' = Append(sent, Sent("delivery", <<>>, "ok"))
    /\ pc' = "idle"
    /\ UNCHANGED <<names, author, organization, configVars, prefVars, assignVars,
                   diffVars, expandVars, candidates, result, reviewer, event, cmd,
                   membership, assigned, data, labels, otherVars>>

NextCommandAgain ==
    \/ Redeliver
    \/ CommandFromBot
    \/ CommandPr
    \/ CommandPrReturn
    \/ CommandIssue
    \/ ExpandGroup
    \/ ExpandTeam
    \/ ExpandTeamNotFound
    \/ ExpandUser
    \/ FilterCandidates
    \/ ReturnCandidates
    \/ SelectReviewer

SpecCommandAgain == InitCommand /\ [][NextCommandAgain]_vars

\* determine_assignee with stored review preferences and filled workqueues
InitFrame ==
    /\ names = <<>>
    /\ author = zed
    /\ assignees = {}
    /\ organization = <<"o">>
    /\ users_on_vacation \in {{}, {bo, cy}}
    /\ adhoc_groups = ConfigFallback.groups
    /\ teams = ConfigFallback.teams
    /\ review_prefs \in [PrefUsers -> PrefOptions]
    /\ workqueue \in [PrefUsers -> Workqueues]
    /\ pc = "idle"
    /\ to_be_expanded = <<>>
    /\ expanded = {}
    /\ seen_names = {}
    /\ expansion_happened = FALSE
    /\ pushes = [g \in DOMAIN adhoc_groups |-> 0]
    /\ iterations = 0
    /\ candidates = {}
    /\ result = NoOutcome
    /\ reviewer = NoOutcome
    /\ directive \in Directives
    /\ \E io \in AssignDiffInputs : owners = io.owners /\ diff = io.diff
    /\ diff_result = find_reviewers_from_diff(owners, diff)
    /\ tier = "directive"
    /\ comments = <<>>
    /\ ret = NoRet
    /\ entered = <<>>
    /\ calls = <<>>
    /\ NoHandler

SpecFrame == InitFrame /\ [][NextAssign]_vars

\* no assignment is under way; the handler h is
OtherHandler(h) ==
    /\ names = <<>>
    /\ author = zed
    /\ assignees = {}
    /\ organization = <<"o">>
    /\ users_on_vacation = {}
    /\ adhoc_groups = ConfigFallback.groups
    /\ teams = ConfigFallback.teams
    /\ review_prefs = [u \in PrefUsers |-> NoPrefs]
    /\ workqueue = [u \in PrefUsers |-> {}]
    /\ pc = "idle"
    /\ to_be_expanded = <<>>
    /\ expanded = {}
    /\ seen_names = {}
    /\ expansion_happened = FALSE
    /\ pushes = [g \in DOMAIN adhoc_groups |-> 0]
    /\ iterations = 0
    /\ candidates = {}
    /\ result = NoOutcome
    /\ reviewer = NoOutcome
    /\ NoDetermine
    /\ cmd = NoCommand
    /\ membership = "member"
    /\ assigned = assignees
    /\ data = <<>>
    /\ labels = {}
    /\ hpc = h
    /\ hret = "none"
    /\ sent = <<>>
    /\ handled = 0

\* a PR without a stored BranchBehindStatusState (Default: None, None) and
\* without comments
InitBehind ==
    /\ OtherHandler("behind")
    /\ event = NoEvent
    /\ NoOther

NextBehind == BehindHandle

SpecBehind == InitBehind /\ [][NextBehind]_vars

\* an issue or a PR of a repository without a stored RelnotesState (Default:
\* None); no event has come
InitRelnotes ==
    /\ OtherHandler("relnotes")
    /\ event \in {RelnotesEvent("none", r[1], r[2], "", "", <<>>, <<>>) : r \in RelnotesRepos}
    /\ last_warned_comment = <<>>
    /\ last_behind_count = <<>>
    /\ hidden = {}
    /\ observed = <<>>
    /\ relnotes_issue = <<>>
    /\ created = <<>>
    /\ answers = <<>>
    /\ warning = <<>>

NextRelnotes == RelnotesHandle

SpecRelnotes == InitRelnotes /\ [][NextRelnotes]_vars

\* the commit messages of a comparison
Messages == {AutoMerge \o <<"1">>, RollupMerge \o <<"2">>, ToLowercase(AutoMerge),
             SubSeq(AutoMerge, 1, Len(AutoMerge) - 1), <<"F", "i", "x">>}
CommitLists == UNION {[1..n -> Messages] : n \in 0..MaxCommits}
\* behind_by and the thresholds
BehindBy == 0..MaxCommits
MergeThresholds == 0..2
\* the answers of is_parent_commit_too_old
ParentAnswers == {AnswerErr, AnswerNone, TooOld(15)}

\* what behind_master is called with
MasterInputs ==
    [is_pr : BOOLEAN,
     repository : {AnswerErr, [kind |-> "Ok"]},
     parent : ParentAnswers,
     comparison : {AnswerErr} \cup {Comparison(b, c) : b \in BehindBy, c \in CommitLists},
     merge_commits_threshold : MergeThresholds]

InitMaster ==
    /\ OtherHandler("master")
    /\ event = NoEvent
    /\ last_warned_comment = <<>>
    /\ last_behind_count = <<>>
    /\ hidden = {}
    /\ observed = <<>>
    /\ relnotes_issue = <<>>
    /\ created = <<>>
    /\ answers \in MasterInputs
    /\ warning = <<>>

NextMaster == BehindMaster

SpecMaster == InitMaster /\ [][NextMaster]_vars

(***************************************************************************)
(* Properties.                                                             *)
(***************************************************************************)
\* candidate_reviewers_from_names has returned
Returned == pc \in {"choose", "done"}

\* expand_teams_and_groups returned Ok and the filtering has run
Expanded == Returned /\ result.kind # "TeamNotFound"

\* the request is one name and no group or team was met
SingleLiteral == Len(names) = 1 /\ ~expansion_happened

\* the user a single literal request names
RequestedUser == maybe_user(names[1])

RECURSIVE SumLen(_, _)
\* total length of the member lists of the groups in gs
SumLen(f, gs) ==
    IF gs = {} THEN 0
    ELSE LET g == CHOOSE x \in gs : TRUE
         IN  Len(f[g]) + SumLen(f, gs \ {g})

\* C1: if ghost is among the expanded usernames, find_reviewer_from_names
\* returns ghost, whatever the author, the assignees and the vacations are.
C1_GhostAlwaysReturned ==
    (pc = "done" /\ reviewer.kind # "TeamNotFound" /\ ghost \in expanded)
        => reviewer = OkReviewer(ghost)

\* C2: expand_teams_and_groups terminates and pushes the members of each
\* ad-hoc group at most once: no group is pushed twice, the iterations done
\* plus the names still on the stack never exceed the names of the request
\* plus the members of all groups, and an iteration is possible while the
\* stack is not empty.
C2_ExpansionTerminates ==
    /\ \A g \in DOMAIN adhoc_groups : pushes[g] <= 1
    /\ iterations + Len(to_be_expanded)
          <= Len(names) + SumLen(adhoc_groups, DOMAIN adhoc_groups)
    /\ (pc = "expand" /\ to_be_expanded # <<>>)
          => ENABLED (ExpandGroup \/ ExpandTeam \/ ExpandTeamNotFound \/ ExpandUser)

\* C2 witness: the expansion of mutually cyclic groups has ended, each group
\* pushed once though met several times.
C2_Witness ==
    /\ pc = "return"
    /\ adhoc_groups = ConfigCyclic.groups
    /\ names = <<grpC>>
    /\ pushes[grpC] = 1 /\ pushes[grpX] = 1
    /\ iterations = 5

OffRotation(u) ==
    \/ is_on_vacation(u)
    \/ /\ u \in DOMAIN review_prefs
       /\ review_prefs[u].stored
       /\ review_prefs[u].rotation_mode = "OffRotation"

\* a capacity c is stored for u and u's workqueue holds n >= c PRs
AtMaxCapacity(u) ==
    /\ u \in DOMAIN review_prefs
    /\ review_prefs[u].stored
    /\ \E c \in review_prefs[u].capacity : Cardinality(workqueue[u]) >= c

\* the error kinds that report a user at capacity
CapacityErrors == {"ReviewerAtMaxCapacity", "ReviewerHasNoCapacity"}

\* the error kinds that report a user off rotation
RotationErrors == {"ReviewerOffRotation", "ReviewerOnVacation"}

\* C5: a successful resolution returns exactly the expanded users that are
\* not the author, not assigned, not off rotation and not at capacity.
C5_ValidSetIsExpandedMinusExcluded ==
    (Returned /\ result.kind = "Ok")
        => result.users =
              {u \in expanded : ~(\/ is_pr_author(u)
                                  \/ is_already_assigned(u)
                                  \/ OffRotation(u)
                                  \/ AtMaxCapacity(u))}

\* C6: a requested user with no other exclusion reason fails with the
\* capacity error exactly when a capacity c is stored and the workqueue
\* count n is >= c.
C6_CapacityExclusion ==
    (/\ Expanded
     /\ SingleLiteral
     /\ exclusion_reason(RequestedUser) = "None"
     /\ ~OffRotation(RequestedUser))
        => ((result.kind \in CapacityErrors /\ result.username = RequestedUser)
               <=> AtMaxCapacity(RequestedUser))

\* C7: a directly requested off-rotation user fails with the rotation error
\* carrying the username; reached through a team or group the user is
\* dropped from the returned set.
C7_OffRotationExcluded ==
    /\ (/\ Expanded
        /\ SingleLiteral
        /\ OffRotation(RequestedUser)
        /\ ~is_pr_author(RequestedUser)
        /\ ~is_already_assigned(RequestedUser)
        /\ ~AtMaxCapacity(RequestedUser))
          => (result.kind \in RotationErrors /\ result.username = RequestedUser)
    /\ (Returned /\ result.kind = "Ok" /\ expansion_happened)
          => \A u \in result.users : ~OffRotation(u)

\* the reason the claimed order gives: author, assigned, off rotation, capacity
claimed_reason(u) ==
    IF is_pr_author(u) THEN "ReviewerIsPrAuthor"
    ELSE IF is_already_assigned(u) THEN "ReviewerAlreadyAssigned"
    ELSE IF OffRotation(u) THEN "ReviewerOnVacation"
    ELSE IF AtMaxCapacity(u) THEN "ReviewerAtMaxCapacity"
    ELSE "None"

C9_CapacityBeforeRotation ==
    (/\ Expanded
     /\ SingleLiteral
     /\ exclusion_reason(RequestedUser) = "None"
     /\ OffRotation(RequestedUser)
     /\ AtMaxCapacity(RequestedUser))
        => (result.kind \in CapacityErrors /\ result.username = RequestedUser)

\* a successful resolution holds a candidate, nothing panics, and the user
\* returned is one of the valid candidates
SelectionSafe ==
    /\ result.kind # "Panic"
    /\ reviewer.kind # "Panic"
    /\ (Returned /\ result.kind = "Ok") => result.users # {}
    /\ (pc = "done" /\ reviewer.kind = "Ok")
          => (result.kind = "Ok" /\ reviewer.username \in result.users)

\* C10 as stated: the selection is safe and every member of the valid
\* candidate set can be the one returned.
C10_EveryMemberSelectable ==
    /\ SelectionSafe
    /\ pc = "choose" => \A u \in result.users : ENABLED Selects(u)

\* C10 as amended: the selection is safe; every member of the valid
\* candidate set can be returned when ghost is not in it, and only ghost
\* when it is.
C10_SelectionFromValidSet ==
    /\ SelectionSafe
    /\ pc = "choose"
          => \A u \in result.users :
                (ENABLED Selects(u)) <=> (ghost \notin result.users \/ u = ghost)

\* C10 witness: a reviewer was selected among several valid candidates.
C10_Witness ==
    /\ pc = "done"
    /\ reviewer.kind = "Ok"
    /\ Cardinality(result.users) >= 2
    /\ ghost \notin result.users
    /\ reviewer.username \in result.users

(***************************************************************************)
(* Properties of the expansion (SpecExpand).                               *)
(***************************************************************************)
\* the references met from the request through ad-hoc groups of any depth
RECURSIVE ReachedFrom(_)
ReachedFrom(S) ==
    LET more == S \cup UNION {Range(adhoc_groups[maybe_group(r)]) :
                                 r \in {x \in S : is_adhoc_group(x)}}
    IN IF more = S THEN S ELSE ReachedFrom(more)

Reached         == ReachedFrom(Range(names))
ReachedTeams    == {r \in Reached : ~is_adhoc_group(r) /\ is_team(r)}
ReachedLiterals == {r \in Reached : ~is_adhoc_group(r) /\ ~is_team(r)}

\* a reference without one leading '@'
WithoutAt(r) == IF r # <<>> /\ r[1] = "@" THEN SubSeq(r, 2, Len(r)) ELSE r

\* the direct members of the reached teams and the reached literals
ReachableUsers ==
    UNION {Range(teams[maybe_team(r)[1]]) : r \in ReachedTeams}
    \cup {WithoutAt(r) : r \in ReachedLiterals}

\* expand_teams_and_groups has returned, Ok or Err
ExpansionEnded == pc # "expand"
\* expand_teams_and_groups has returned Ok
ExpansionOk    == ExpansionEnded /\ result.kind # "TeamNotFound"

\* C11: when the expansion succeeds, the expanded set is exactly the reached
\* literal usernames, each without its leading '@', together with the direct
\* members of every reached team (a set: each user once).
C11_ExpandedIsReachable == ExpansionOk => expanded = ReachableUsers

\* C11 witness: group c of the nested configuration (c = [al, @bo, cy, n],
\* n = [bo, di]) has expanded to its four users.
C11_Witness ==
    /\ pc = "return"
    /\ names = <<grpC>>
    /\ adhoc_groups = ConfigNested.groups
    /\ expanded = {al, bo, cy, di}

\* C12: when every reference reached from the request is an ad-hoc group
\* (the groups form cycles and name no user), the expansion is empty and
\* the resolution returns NoReviewer with the requested names as initial.
C12_CycleGivesNoReviewer ==
    (ExpansionEnded /\ \A r \in Reached : is_adhoc_group(r))
        => /\ expanded = {}
           /\ expansion_happened
           /\ Returned => result = NoReviewer(names)
           /\ pc = "done" => reviewer = NoReviewer(names)

\* C12 witness: the request for c, with c = [x, x] and x = [c, x], has
\* returned NoReviewer{initial: [c]}.
C12_Witness ==
    /\ pc = "done"
    /\ names = <<grpC>>
    /\ adhoc_groups = ConfigCyclic.groups
    /\ expanded = {}
    /\ reviewer = NoReviewer(<<grpC>>)

\* the orders of a sequence
Permuted(s) ==
    {[i \in 1..Len(s) |-> s[p[i]]] :
        p \in {q \in [1..Len(s) -> 1..Len(s)] :
                  \A i, j \in 1..Len(s) : q[i] = q[j] => i = j}}

\* the configurations that differ from config.adhoc_groups in the order of
\* the members of the groups only
GroupOrders ==
    {gs \in [DOMAIN adhoc_groups ->
                UNION {Permuted(adhoc_groups[g]) : g \in DOMAIN adhoc_groups}] :
        \A g \in DOMAIN adhoc_groups : gs[g] \in Permuted(adhoc_groups[g])}

\* two runs of the expansion agree: both fail, or both give the same users
\* and the same flag
SameExpansion(a, b) ==
    /\ a.ok = b.ok
    /\ a.ok => (a.users = b.users /\ a.happened = b.happened)

\* C13: the expansion of every order of the request and of the members of
\* the groups gives the same users and the same expansion_happened flag as
\* the given order, or fails as the given order does; and the loop run step
\* by step ends with what the function gives.
C13_OrderIndependent ==
    /\ (pc = "expand" /\ iterations = 0)
          => \A ns \in Permuted(names) : \A gs \in GroupOrders :
                SameExpansion(expand_teams_and_groups(gs, ns),
                              expand_teams_and_groups(adhoc_groups, names))
    /\ ExpansionEnded
          => SameExpansion([ok |-> result.kind # "TeamNotFound",
                            users |-> expanded,
                            happened |-> expansion_happened],
                           expand_teams_and_groups(adhoc_groups, names))

\* C13 witness: a request of two different names, one of them a group of
\* several members, has expanded to several users.
C13_Witness ==
    /\ pc = "return"
    /\ Len(names) = 2
    /\ names[1] # names[2]
    /\ \E n \in Range(names) :
          is_adhoc_group(n) /\ Cardinality(Range(adhoc_groups[maybe_group(n)])) >= 2
    /\ Cardinality(expanded) >= 2

\* the spellings of a name: bare, with '@', with the organization, with both
SpellingsOf(g) ==
    {g, <<"@">> \o g, organization \o <<"/">> \o g,
     <<"@">> \o organization \o <<"/">> \o g}

\* C14: when the popped name is a spelling of a name that is both an ad-hoc
\* group and a team, the iteration adds no user to the expanded set (the
\* team's members are not added) and pushes the group's members, or nothing
\* when the group was expanded before.
C14_GroupBeforeTeam ==
    [][\A g \in DOMAIN adhoc_groups \cap DOMAIN teams :
          (pc = "expand" /\ to_be_expanded # <<>> /\ name_to_expand \in SpellingsOf(g))
             => /\ expanded' = expanded
                /\ expansion_happened'
                /\ to_be_expanded' \in
                      {rest_of_stack, rest_of_stack \o adhoc_groups[g]}]_vars

\* C14 witness: with group c = [al] and team c = [bo], the request @o/c has
\* expanded to al alone.
C14_Witness ==
    /\ pc = "return"
    /\ names = <<atOrgC>>
    /\ adhoc_groups = ConfigPrecedence.groups
    /\ teams = ConfigPrecedence.teams
    /\ expanded = {al}

\* C15 as stated: the expansion fails with TeamNotFound exactly when a
\* reached reference that is no group and no team holds a '/' after its '@'
\* and its organization prefix are stripped.
C15_TeamNotFoundAfterOrgStripped ==
    ExpansionEnded
       => ((result.kind = "TeamNotFound")
              <=> \E r \in ReachedLiterals :
                     ContainsChar(strip_organization_prefix(r), "/"))

\* C15 as amended: the expansion fails with TeamNotFound exactly when a
\* reached reference that is no group and no team holds a '/' after one
\* leading '@' is removed (the organization prefix is not removed for this
\* test); the error names such a reference, and on success every reached
\* literal is among the expanded users.
C15_TeamNotFoundOnSlash ==
    ExpansionEnded
       => /\ (result.kind = "TeamNotFound")
                <=> \E r \in ReachedLiterals : ContainsChar(WithoutAt(r), "/")
          /\ result.kind = "TeamNotFound"
                => \E r \in ReachedLiterals :
                      /\ ContainsChar(WithoutAt(r), "/")
                      /\ result = TeamNotFound(WithoutAt(r))
          /\ result.kind # "TeamNotFound"
                => \A r \in ReachedLiterals : WithoutAt(r) \in expanded

\* C15 witness: the request o/al, where al is no team and no group, has
\* failed with TeamNotFound(o/al).
C15_Witness ==
    /\ pc = "done"
    /\ names = <<orgAl>>
    /\ result = TeamNotFound(orgAl)

(***************************************************************************)
(* Properties of determine_assignee (SpecAssign).                          *)
(***************************************************************************)
AssignReturned == tier = "returned"

\* the r? directive names the PR author, whatever the case of the letters
SelfAssign ==
    directive # <<>> /\ ToLowercase(directive[1]) = ToLowercase(author)

\* the resolution calls of a run in which every tier fails, in their order:
\* the directive when there is one, the owners of the diff when there are
\* some, the fallback group when it is configured
Planned ==
    (IF directive # <<>> THEN <<"directive_call">> ELSE <<>>)
    \o (IF diff_result.ok /\ diff_result.names # <<>> THEN <<"diff_call">> ELSE <<>>)
    \o (IF fallback \in DOMAIN adhoc_groups THEN <<"fallback_call">> ELSE <<>>)

\* the tiers of the calls made so far
CallTiers == [i \in 1..Len(calls) |-> calls[i].tier]

IsPrefix(a, b) == Len(a) <= Len(b) /\ SubSeq(b, 1, Len(a)) = a

\* the calls are made in the order of the tiers and none follows a success
CallsInOrder ==
    /\ IsPrefix(CallTiers, Planned)
    /\ \A i \in 1..(Len(calls) - 1) : calls[i].outcome.kind # "Ok"

\* the last call made has found a reviewer
LastCallOk == calls # <<>> /\ calls[Len(calls)].outcome.kind = "Ok"

\* the assignee of the last call is returned, with the flag of its tier
ReturnsLastCall ==
    ret = OkRet(<<calls[Len(calls)].outcome.username>>,
                calls[Len(calls)].tier = "directive_call")

\* every tier was tried and (None, false) is returned
ReturnsNone ==
    /\ CallTiers = Planned
    /\ "diff" \in Range(entered)
    /\ ret = OkRet(<<>>, FALSE)

\* the post of the directive's error failed and its error is returned
AbortedByPost ==
    /\ ret = ErrRet
    /\ CallTiers = <<"directive_call">>
    /\ entered = <<"directive">>
    /\ comments = <<>>

DirectiveFailed ==
    /\ calls # <<>>
    /\ calls[1].tier = "directive_call"
    /\ calls[1].outcome.kind # "Ok"

\* the error of the directive is the one comment, the diff tier followed and
\* what is returned does not come from the directive
PostedThenDiff ==
    /\ comments = <<to_string(calls[1].outcome)>>
    /\ AssignReturned
          => /\ Len(entered) >= 2
             /\ entered[2] = "diff"
             /\ ret.kind = "Ok"
             /\ ~ret.from_comment

\* C18 as stated: when the resolution of the r? directive fails, the rendered
\* error is posted exactly once, the diff tier is tried next, and an assignee
\* found afterwards is returned with from_comment = false.
C18_ErrorPostedThenDiff == DirectiveFailed => PostedThenDiff

\* C18 as amended: as stated when the post succeeds; when the post fails no
\* comment appears, no later tier is tried and determine_assignee returns
\* the error of the post.
C18_ErrorPostedThenDiffUnlessPostFails ==
    DirectiveFailed
       => IF ret.kind = "Err" THEN AssignReturned /\ AbortedByPost
          ELSE PostedThenDiff

\* C18 witness: the directive failed, its error was posted, and the owners of
\* the diff gave the assignee.
C18_Witness ==
    /\ AssignReturned
    /\ DirectiveFailed
    /\ comments = <<to_string(calls[1].outcome)>>
    /\ CallTiers = <<"directive_call", "diff_call">>
    /\ ret.assignee # <<>>
    /\ ~ret.from_comment

\* the one comment there can be is the rendered error of the failed directive
OnlyDirectiveComment ==
    comments = <<>>
    \/ (DirectiveFailed /\ comments = <<to_string(calls[1].outcome)>>)

\* C19: no step of the diff tier or of the fallback tier, the resolution
\* calls they make included, posts a comment or ends determine_assignee with
\* an error; the only comment there can be is the rendered error of a failed
\* r? directive.
C19_DiffAndFallbackSilent ==
    /\ []OnlyDirectiveComment
    /\ [][(tier \in {"diff", "diff_call", "fallback", "fallback_call"})
             => (comments' = comments /\ ret'.kind # "Err"
                 /\ tier' # "panicked")]_vars

\* C19 witness: without a directive, the owners of the diff failed with
\* TeamNotFound, the fallback group failed too, nothing was posted and
\* (None, false) was returned.
C19_Witness ==
    /\ AssignReturned
    /\ directive = <<>>
    /\ CallTiers = <<"diff_call", "fallback_call">>
    /\ calls[1].outcome.kind = "TeamNotFound"
    /\ calls[2].outcome.kind # "Ok"
    /\ comments = <<>>
    /\ ret = OkRet(<<>>, FALSE)

\* C20: when find_reviewers_from_diff fails on an invalid glob, the diff tier
\* makes no resolution call, the fallback tier is what follows, and
\* determine_assignee returns Ok.
C20_InvalidGlobFallsThrough ==
    (~diff_result.ok /\ "diff" \in Range(entered))
       => /\ tier \in {"fallback", "fallback_call", "returned"}
          /\ \A i \in 1..Len(calls) : calls[i].tier # "diff_call"
          /\ AssignReturned
                => /\ ret.kind = "Ok"
                   /\ fallback \in DOMAIN adhoc_groups
                         => /\ entered[Len(entered)] = "fallback"
                            /\ LastCallOk => ReturnsLastCall
                            /\ ~LastCallOk => ret = OkRet(<<>>, FALSE)
                   /\ fallback \notin DOMAIN adhoc_groups => ret = OkRet(<<>>, FALSE)

\* C20 witness: the ownership map holds an invalid glob and the fallback
\* group gave the assignee.
C20_Witness ==
    /\ AssignReturned
    /\ ~diff_result.ok
    /\ entered[Len(entered)] = "fallback"
    /\ calls[Len(calls)].tier = "fallback_call"
    /\ ret.kind = "Ok"
    /\ ret.assignee # <<>>

(***************************************************************************)
(* Properties of find_reviewers_from_diff (SpecDiff).                      *)
(***************************************************************************)
\* the number of '/'-separated segments of a pattern
SegmentCount(p) == 1 + Cardinality({i \in 1..Len(p) : p[i] = "/"})

\* the patterns that match the file and are not shallower than another
\* pattern that matches it
DeepestMatching(f) ==
    LET matching == {p \in DOMAIN owners : matched_path_or_any_parents(p, f.path)}
    IN {p \in matching : \A q \in matching : SegmentCount(q) <= SegmentCount(p)}

\* the lines of the file's diff that start with '+' but not "+++", or with
\* '-' but not "---"
ChangedLineCount(f) ==
    Cardinality({i \in 1..Len(f.diff) :
                    LET line == f.diff[i] IN
                    /\ line # <<>>
                    /\ line[1] \in {"+", "-"}
                    /\ ~(Len(line) >= 3 /\ line[2] = line[1] /\ line[3] = line[1])})

\* the sum over the first n files of the diff of what pattern p gets
RECURSIVE WeightUpTo(_, _)
WeightUpTo(p, n) ==
    IF n = 0 THEN 0
    ELSE WeightUpTo(p, n - 1)
         + (IF p \in DeepestMatching(diff[n]) THEN 1 + ChangedLineCount(diff[n]) ELSE 0)

Weight(p) == WeightUpTo(p, Len(diff))

\* the count the function holds for p, 0 when it holds none
CountOf(p) ==
    LET counts == counts_of(owners, diff)
    IN IF p \in DOMAIN counts THEN counts[p] ELSE 0

\* determine_assignee has called find_reviewers_from_diff
DiffTierEntered == "diff" \in Range(entered)

\* C21: when find_reviewers_from_diff returns Ok, the count of every owner
\* pattern is the sum, over the files for which the pattern is among the
\* deepest matching ones, of 1 plus the changed lines of the file; a pattern
\* shallower than another that matches the file gets nothing from it, and a
\* pattern has a count only when it gets something.
C21_WeightIsSumOverDeepest ==
    (tier = "diff" /\ diff_result.ok)
       => \A p \in DOMAIN owners :
             /\ CountOf(p) = Weight(p)
             /\ p \in DOMAIN counts_of(owners, diff) <=> Weight(p) >= 1

\* C21 witness: a/f with one changed line gives /a the weight 2; a/b/f with
\* two changed lines gives /a/b the weight 3 and nothing to /a and b, which
\* match it too.
C21_Witness ==
    /\ DiffTierEntered
    /\ owners = OwnDeep
    /\ diff = <<FileDiff(pathAF, 1), FileDiff(pathABF, 2)>>
    /\ counts_of(owners, diff) = (patA :> 2) @@ (patAB :> 3)

\* the patterns that have a weight and none has a greater one
MaxWeightPatterns ==
    {p \in DOMAIN owners :
        Weight(p) >= 1 /\ \A q \in DOMAIN owners : Weight(q) <= Weight(p)}

\* the sequence is sorted and holds no element twice
StrictlySorted(s) == \A i \in 1..(Len(s) - 1) : LexLess(s[i], s[i + 1])

\* C22: when find_reviewers_from_diff returns Ok, the list is sorted without
\* duplicates and its elements are exactly the owners of the patterns whose
\* weight is the greatest (of the patterns that have a weight: when none
\* has, the list is empty): all the patterns that tie are included and an
\* owner listed only under patterns of lower weight is not.
C22_SortedUnionOfMaxWeight ==
    (tier = "diff" /\ diff_result.ok)
       => /\ StrictlySorted(diff_result.names)
          /\ Range(diff_result.names)
                = UNION {Range(owners[p]) : p \in MaxWeightPatterns}

\* C22 witness: /a and /a/b tie with the weight 2 and the owners of both are
\* returned, sorted; w, the owner of b alone, is not.
C22_Witness ==
    /\ DiffTierEntered
    /\ owners = OwnDeep
    /\ diff = <<FileDiff(pathAF, 1), FileDiff(pathABF, 1)>>
    /\ diff_result = DiffOk(<<al, bo, cy>>)

\* no owner pattern matches a changed file
NoPatternMatches ==
    \A i \in 1..Len(diff) : \A p \in DOMAIN owners :
        ~matched_path_or_any_parents(p, diff[i].path)

NoSelectionRun ==
    /\ tier = "none"
    /\ entered = <<>>
    /\ calls = <<>>
    /\ pc = "idle"
    /\ ret = NoRet

\* C24: when the newly opened PR has an assignee already, handle_input runs
\* no selection (determine_assignee is not entered, no resolution call is
\* made), sends no assignment to the tracker, leaves the assignees as they
\* were and posts no comment, at every point of the handler
C24_AssignedPrIsLeftAlone ==
    (hpc # "none" /\ event.action = "opened" /\ assignees # {})
        => /\ NoSelectionRun
           /\ sent = <<>>
           /\ assigned = assignees
           /\ comments = <<>>

\* a PR opened with an assignee, and handle_input has returned Ok
C24_Witness ==
    /\ hpc = "done"
    /\ hret = "Ok"
    /\ event.action = "opened"
    /\ event.is_pr
    /\ assignees # {}
    /\ directive # <<>>

(***************************************************************************)
(* Properties of handle_command (SpecCommand).                             *)
(***************************************************************************)
\* the two logins name one account: they differ in the case of letters only
SameLogin(a, b) ==
    /\ Len(a) = Len(b)
    /\ \A i \in 1..Len(a) : LowerChar(a[i]) = LowerChar(b[i])

\* the command asks for an assignee
Assigning == cmd.kind \in {"Claim", "AssignUser", "RequestReview"}

\* the calls that asked the tracker to assign a user
SetCalls == {i \in DOMAIN sent : sent[i].op = "set_assignee"}

\* C25: on a PR, whatever the assigning command and whoever wrote it, the
\* tracker is never asked to assign the author of the PR, and no assignee
\* that the command added is the author
C25_AuthorNeverAssigned ==
    (hpc # "none" /\ event.is_pr /\ Assigning)
        => /\ \A i \in SetCalls : ~SameLogin(sent[i].arg, author)
           /\ \A a \in assigned \ assignees : ~SameLogin(a, author)

\* somebody else named the author of the PR, in another case of letters, and
\* got the answer that the author cannot be the reviewer
C25_Witness ==
    /\ hpc = "done"
    /\ hret = "Ok"
    /\ event = Event("comment", cy, TRUE, TRUE)
    /\ author = AlUpper
    /\ cmd = AssignUser(al)
    /\ comments = <<to_string(ReviewerError("ReviewerIsPrAuthor", al))>>
    /\ assigned = assignees

\* the command of the requester names the requester
SelfAssigning ==
    /\ Assigning
    /\ SameLogin(pr_assignee(cmd, event.user)[1], event.user)

\* no call to the tracker was refused
NoCallFailed == \A i \in DOMAIN sent : sent[i].res = "ok"

\* C26: a user on vacation who assigns themselves by a comment on an open PR
\* of somebody else is an assignee once the command is handled, and a user on
\* vacation named by somebody else is not assigned and the on-vacation
\* message is posted (the handler having returned Ok in both cases)
C26_VacationSelfAssign ==
    (/\ hpc = "done"
     /\ hret = "Ok"
     /\ NoCallFailed
     /\ event.is_pr /\ event.is_open /\ event.action = "comment"
     /\ event.user # bot
     /\ Assigning
     /\ pr_assignee(cmd, event.user)[1] \notin DOMAIN adhoc_groups \cup DOMAIN teams
     /\ is_on_vacation(pr_assignee(cmd, event.user)[1])
     /\ ~SameLogin(pr_assignee(cmd, event.user)[1], author))
        => IF SelfAssigning
           THEN \E a \in assigned : SameLogin(a, event.user)
           ELSE /\ assigned = assignees
                /\ comments = <<on_vacation_warning(pr_assignee(cmd, event.user)[1])>>

\* C27: ReleaseAssignment on a PR makes no call to the tracker and leaves the
\* assignees and the tracking data as they were, whoever the requester is
C27_ReleaseOnPrChangesNothing ==
    (hpc # "none" /\ event.is_pr /\ cmd = ReleaseAssignment)
        => /\ assigned = assignees
           /\ sent = <<>>
           /\ data = <<>>
           /\ pc = "idle"

\* an assignee of an open PR has asked for the release in a comment
C27_Witness ==
    /\ hpc = "done"
    /\ hret = "Ok"
    /\ event = Event("comment", bo, TRUE, TRUE)
    /\ cmd = ReleaseAssignment
    /\ assignees = {bo, cy}
    /\ assigned = {bo, cy}

\* the step that handles ReleaseAssignment on an issue
ReleaseStep ==
    /\ hpc = "command"
    /\ hpc' = "done"
    /\ ~event.is_pr
    /\ event.user # bot
    /\ cmd = ReleaseAssignment

\* the requester holds the issue: the tracking data records the requester,
\* or it records nobody and the requester is an assignee
CurrentHolder ==
    IF data # <<>> THEN data[1] = event.user
    ELSE \E a \in assignees : SameLogin(a, event.user)

\* the assignees without the requester
WithoutRequester == {a \in assigned : ~SameLogin(a, event.user)}

\* C28 as stated: ReleaseAssignment on an issue by the current holder or by a
\* team member leaves no assignment of the holder and no recorded user; by
\* anybody else it fails and the assignees and the AssignData are unchanged
C28_ReleaseClearsOrFails ==
    [][ReleaseStep =>
          IF CurrentHolder \/ membership = "member"
          THEN (hret' = "Ok" /\ data' = <<>> /\ assigned' \in {{}, WithoutRequester})
          ELSE (hret' = "Err" /\ assigned' = assigned /\ data' = data)]_vars

\* AssignData names a user and the requester is that user or a team member
ReleaseOfRecorded == data # <<>> /\ (data[1] = event.user \/ membership = "member")

\* AssignData names nobody and the requester is an assignee
ReleaseOfOwn == data = <<>> /\ \E a \in assignees : SameLogin(a, event.user)

\* the handler ended on a call the tracker refused
EndedOnRefusal ==
    /\ hret' = "Err"
    /\ Len(sent') > Len(sent)
    /\ sent'[Len(sent')].res = "error"
    /\ data' = data

\* C28 amended: with a recorded user, the release by that user or by a team
\* member removes all assignees and resets the AssignData; with no recorded
\* user, the release by an assignee removes that assignee alone and resets
\* the AssignData; both unless the tracker refuses a call, which ends the
\* handler with an error and the AssignData as it was. Every other release
\* fails, makes no call and leaves the assignees and the AssignData unchanged
C28_ReleaseClearsRecordedOrOwn ==
    [][ReleaseStep =>
          IF ReleaseOfRecorded
          THEN \/ (hret' = "Ok" /\ data' = <<>> /\ assigned' = {})
               \/ (EndedOnRefusal /\ assigned' \in {assigned, {}})
          ELSE IF ReleaseOfOwn
          THEN \/ (hret' = "Ok" /\ data' = <<>> /\ assigned' = WithoutRequester)
               \/ (EndedOnRefusal /\ assigned' \in {assigned, WithoutRequester})
          ELSE (hret' = "Err" /\ assigned' = assigned /\ data' = data
                /\ sent' = sent)]_vars

\* a team member has released the issue recorded for somebody else
C28_Witness ==
    /\ hpc = "done"
    /\ hret = "Ok"
    /\ event = Event("comment", cy, FALSE, TRUE)
    /\ cmd = ReleaseAssignment
    /\ membership = "member"
    /\ assignees = {bo}
    /\ assigned = {}
    /\ data = <<>>
    /\ sent = <<Sent("remove_assignees", <<>>, "ok"), Sent("apply", <<>>, "ok")>>

\* C29: when somebody who is no team member (the check may have failed) has
\* written AssignUser with the name of another user, the tracker accepts no
\* request to assign that user and the user is not added to the assignees,
\* on an issue as on a PR
C29_OnlyMembersAssignOthers ==
    (/\ hpc # "none"
     /\ cmd.kind = "AssignUser"
     /\ membership # "member"
     /\ ~SameLogin(cmd.name, event.user))
        => /\ \A i \in SetCalls :
                 sent[i].res = "ok" => ~SameLogin(sent[i].arg, cmd.name)
           /\ \A a \in assigned \ assignees : ~SameLogin(a, cmd.name)

\* the user the command assigns on an issue
ToAssign == issue_to_assign(cmd, event.user)

\* an assignment on an issue was handled and the tracker gave the answer res
\* to the request to assign the user
TrackerAnswered(res) ==
    /\ hpc = "done"
    /\ ~event.is_pr
    /\ event.user # bot
    /\ cmd.kind \in {"Claim", "AssignUser"}
    /\ ToAssign # <<>>
    /\ \E i \in SetCalls : sent[i] = Sent("set_assignee", ToAssign[1], res)

\* C30 as stated: after InvalidAssignee the bot is an assignee and the
\* AssignData records the user; after Ok the user is an assignee and the bot
\* is not
C30_BotStandsIn ==
    /\ TrackerAnswered("invalid") =>
          (bot \in assigned /\ data = ToAssign)
    /\ TrackerAnswered("ok") =>
          (ToAssign[1] \in assigned /\ bot \notin assigned)

\* the tracker accepted the request to assign the bot
BotAccepted == \E i \in SetCalls : sent[i] = Sent("set_assignee", bot, "ok")

\* C30 amended: after InvalidAssignee the bot is asked for: when the tracker
\* accepts it, the bot is the assignee; when it does not, the handler ends
\* with an error and the assignees are as before; in both cases the
\* AssignData records the user. After Ok the user is the assignee and the
\* AssignData records the user: the bot is then assigned only if it is
\* the user
C30_BotStandsInIfAccepted ==
    /\ TrackerAnswered("invalid") =>
          /\ data = ToAssign
          /\ \E i \in SetCalls : sent[i].arg = bot
          /\ IF BotAccepted THEN assigned = {bot}
             ELSE hret = "Err" /\ assigned = assignees
    /\ TrackerAnswered("ok") =>
          /\ assigned = {ToAssign[1]}
          /\ data = ToAssign
          /\ hret = "Ok"
          /\ (bot \in assigned => ToAssign[1] = bot)

\* a team member named a user the tracker does not take, and the bot stands in
C30_Witness ==
    /\ TrackerAnswered("invalid")
    /\ ~TrackerAnswered("ok")
    /\ BotAccepted
    /\ hret = "Ok"
    /\ cmd = AssignUser(bo)
    /\ event.user = cy
    /\ assigned = {bot}
    /\ data = <<bo>>

(***************************************************************************)
(* Properties of the resolution as a whole (SpecFrame).                    *)
(***************************************************************************)
\* C31: no step of determine_assignee, of the expansion, of the filtering or
\* of the choice changes the workqueue of a user or a review preference
C31_ResolutionWritesNoQueue ==
    [][workqueue' = workqueue /\ review_prefs' = review_prefs]_vars

\* determine_assignee has returned a reviewer who has stored preferences and
\* PRs on the workqueue, after the call of an earlier tier had failed
C31_Witness ==
    /\ tier = "returned"
    /\ ret = OkRet(<<cy>>, FALSE)
    /\ Len(calls) >= 2
    /\ calls[1].outcome.kind \notin {"Ok", "None"}
    /\ review_prefs[cy].stored
    /\ workqueue[cy] # {}

\* the capacity check of u against the workqueue w: a stored capacity is
\* reached by the number of PRs w holds for u
OverCapacityIn(u, w) ==
    /\ u \in DOMAIN review_prefs
    /\ review_prefs[u].stored
    /\ \E c \in review_prefs[u].capacity : Cardinality(w[u]) >= c

\* the candidates of the pass that no other rule excludes
CapacityChecked ==
    {c \in candidates : c.reason \in {"None"} \cup CapacityErrors}

FromDirective ==
    \/ (SelfAssign /\ calls = <<>> /\ ret.assignee = directive)
    \/ (LastCallOk /\ calls[Len(calls)].tier = "directive_call"
        /\ ret.assignee = <<calls[Len(calls)].outcome.username>>)

\* the assignee returned is the reviewer the resolution of the owners of the
\* diff or of the fallback group gave
FromDiffOrFallback ==
    /\ LastCallOk
    /\ calls[Len(calls)].tier \in {"diff_call", "fallback_call"}

\* C33: in the pair determine_assignee returns, the boolean is true only
\* with an assignee that came from the r? directive; it is false with an
\* assignee from the diff or from the fallback group, and with no assignee
C33_FromCommentOnlyFromDirective ==
    (tier = "returned" /\ ret.kind = "Ok")
        => /\ ret.from_comment => (ret.assignee # <<>> /\ FromDirective)
           /\ FromDiffOrFallback => ~ret.from_comment
           /\ ret.assignee = <<>> => ~ret.from_comment

\* the r? directive failed and the owners of the diff gave the assignee
C33_Witness ==
    /\ tier = "returned"
    /\ directive # <<>>
    /\ CallTiers = <<"directive_call", "diff_call">>
    /\ ret.kind = "Ok"
    /\ ret.assignee # <<>>
    /\ ~ret.from_comment

(***************************************************************************)
(* Properties of handle_input with the ghost account (SpecInput).          *)
(***************************************************************************)
\* determine_assignee has returned ghost to handle_input
GhostDetermined == hpc = "done" /\ ret.kind = "Ok" /\ ret.assignee = <<ghost>>

\* the comments of determine_assignee: the errors of the r? directive
DirectiveErrors ==
    {i \in DOMAIN calls : calls[i].tier = "directive_call"
                          /\ calls[i].outcome.kind \notin {"Ok", "Panic"}}

\* C34: when determine_assignee returns ghost, from the r? directive, from
\* the owners of the diff or from the fallback group, handle_input returns Ok
\* without a call to the tracker, the assignees are as before, and the only
\* comments are the errors determine_assignee posted for the r? directive:
\* there is no welcome
C34_GhostAssignsNobody ==
    GhostDetermined
        => /\ hret = "Ok"
           /\ sent = <<>>
           /\ assigned = assignees
           /\ Len(comments) = Cardinality(DirectiveErrors)
           /\ \A i \in DOMAIN comments : comments[i] \notin {welcome(ret)[j] : j \in DOMAIN welcome(ret)}

\* ghost came from the fallback group after the r? directive had failed
C34_Witness ==
    /\ GhostDetermined
    /\ hret = "Ok"
    /\ directive # <<>>
    /\ CallTiers = <<"directive_call", "fallback_call">>
    /\ ~ret.from_comment

\* ghost came from the owners of the diff
C34_WitnessDiff ==
    /\ GhostDetermined
    /\ CallTiers = <<"diff_call">>


(***************************************************************************)
(* Properties of a repeated delivery (SpecCommandAgain)                    *)
(***************************************************************************)
\* the user the command asks to assign
Asked ==
    CASE cmd.kind = "Claim" -> event.user
      [] cmd.kind \in {"AssignUser", "RequestReview"} -> cmd.name
      [] OTHER -> <<>>

\* the event shows the user the command asks for among the assignees
AlreadyAssignee == Assigning /\ \E a \in assignees : SameLogin(a, Asked)

\* the calls to the tracker made since the event was delivered the last time
SentNow ==
    LET deliveries == {i \in DOMAIN sent : sent[i].op = "delivery"}
        last == IF deliveries = {} THEN 0
                ELSE CHOOSE i \in deliveries : \A j \in deliveries : j <= i
    IN SubSeq(sent, last + 1, Len(sent))

\* C35: when the event shows the user the command asks for among the
\* assignees, on a PR and on an issue, the handling asks the tracker for no
\* assignment, writes no AssignData and leaves the assignees and the
\* AssignData as they were; so it is for the command that is delivered again
\* after it made the user the assignee
C35_ReassigningIsNoOp ==
    /\ [](AlreadyAssignee =>
            (/\ assigned = assignees
             /\ \A i \in DOMAIN SentNow : SentNow[i].op \notin {"set_assignee", "apply"}))
    /\ [][AlreadyAssignee => (data' = data)]_vars

C35_Witness ==
    /\ handled = 1
    /\ hpc = "done"
    /\ hret = "Ok"
    /\ ~event.is_pr
    /\ cmd = Claim
    /\ AlreadyAssignee
    /\ sent = <<Sent("apply", <<event.user>>, "ok"),
                Sent("set_assignee", event.user, "ok"),
                Sent("delivery", <<>>, "ok")>>
    /\ assigned = {event.user}
    /\ data = <<event.user>>

C35_WitnessPr ==
    /\ handled = 1
    /\ hpc = "done"
    /\ event.is_pr
    /\ AlreadyAssignee
    /\ \E i \in SetCalls : sent[i].res = "ok" /\ sent[i].arg = Asked
    /\ sent[Len(sent)].op = "delivery"

(***************************************************************************)
(* Properties of the AssignData against the assignees (SpecCommand)        *)
(***************************************************************************)
\* the user the AssignData records, or the bot, is among the assignees
RecordedIsAssigned ==
    data # <<>> => \E a \in assigned : SameLogin(a, data[1]) \/ a = bot

\* C36: on an issue, no step of handle_command, whether it ends with Ok or
\* with an error, leads from a state where the recorded user or the bot is
\* among the assignees to a state where the AssignData records a user and
\* neither that user nor the bot is an assignee
C36_RecordedUserIsAssigned ==
    [][(~event.is_pr /\ RecordedIsAssigned) => RecordedIsAssigned']_vars

\* the same when every call to the tracker was accepted
C36_RecordedUserIsAssignedIfAccepted ==
    [][(~event.is_pr /\ RecordedIsAssigned /\ hret' = "Ok") => RecordedIsAssigned']_vars

(***************************************************************************)
(* Properties of pr_behind_commits (SpecBehind)                            *)
(***************************************************************************)
\* the warning comments of the PR that are not hidden
Visible == DOMAIN comments \ hidden

\* the event handled last has shown a count below the threshold
ObservedBelow == observed # <<>> /\ observed.behind_by < observed.threshold

\* a warning was posted in the step
Posted == Len(comments') > Len(comments)

\* C37: after any sequence of events at most one warning is visible, after
\* an event that showed a count below the threshold no warning is visible and
\* the stored state holds neither a comment nor a count, and when a warning
\* is posted the warning recorded before is hidden
C37_OneVisibleWarning ==
    /\ [](/\ Cardinality(Visible) <= 1
          /\ ObservedBelow =>
                (Visible = {} /\ last_warned_comment = <<>> /\ last_behind_count = <<>>))
    /\ [][(Posted /\ last_warned_comment # <<>>) => (last_warned_comment[1] \in hidden')]_vars

\* the stored state records the one visible warning with its count, or
\* nothing when none is visible
StoredIsVisible ==
    /\ Visible = {last_warned_comment[i] : i \in DOMAIN last_warned_comment}
    /\ (last_warned_comment = <<>>) <=> (last_behind_count = <<>>)

\* the same for the events whose handling ended with Ok
C37_OneVisibleWarningIfOk ==
    [][(StoredIsVisible /\ hret' = "Ok") =>
          (StoredIsVisible' /\ (ObservedBelow' => Visible' = {}))]_vars

\* C38: a warning is posted only on an event whose count is at or above the
\* threshold and either differs from the stored last_behind_count or comes
\* with no stored last_warned_comment; on an event whose count is the stored
\* one while a comment is stored none is posted
C38_WarnsOnceForACount ==
    [][(Posted =>
          (/\ observed'.behind_by >= observed'.threshold
           /\ (last_behind_count # <<observed'.behind_by>> \/ last_warned_comment = <<>>)))
       /\ ((/\ observed' # <<>>
            /\ last_warned_comment # <<>>
            /\ last_behind_count = <<observed'.behind_by>>) => ~Posted)]_vars

\* a second warning was posted for another count and the event that showed
\* this count once more was handled without a call
C38_Witness ==
    /\ handled = 3
    /\ comments = <<behind_warning(2), behind_warning(3)>>
    /\ hidden = {1}
    /\ last_warned_comment = <<2>>
    /\ last_behind_count = <<3>>
    /\ observed = Observed(3, 2)
    /\ hret = "Ok"
    /\ sent = <<>>

\* two warnings are visible at once
TwoVisible == Cardinality(Visible) >= 2

(***************************************************************************)
(* Properties of relnotes (SpecRelnotes)                                   *)
(***************************************************************************)
\* a tracking issue was created in the step
Created == Len(created') > Len(created)

\* C39: over any sequence of events of an issue or PR, failed handlings
\* included, at most one tracking issue is created; none is created once a
\* paired tracking issue is stored, none for an event whose title starts
\* with "Tracking issue for release notes", and none outside rust-lang/rust
C39_OneTrackingIssue ==
    /\ [](Len(created) <= 1)
    /\ [][Created => (/\ relnotes_issue = <<>>
                      /\ ~is_tracking_title(event'.title)
                      /\ is_rust_repo(event'))]_vars

\* the tracking issue created is the one the state pairs
PairedIsCreated ==
    /\ Len(created) <= 1
    /\ (relnotes_issue = <<>>) <=> (created = <<>>)

\* the same for the events whose handling ended with Ok
C39_OneTrackingIssueIfOk ==
    [][(PairedIsCreated /\ hret' = "Ok") => PairedIsCreated']_vars

(***************************************************************************)
(* Properties of behind_master (SpecMaster)                                *)
(***************************************************************************)
\* the commits of the comparison whose message starts with "Auto merge of #"
\* or with "Rollup merge of #"
MergeCommits ==
    {i \in DOMAIN answers.comparison.commits :
        \/ StartsWith(answers.comparison.commits[i], AutoMerge)
        \/ StartsWith(answers.comparison.commits[i], RollupMerge)}

\* the parent commit is too old
ParentTooOld == answers.parent.kind = "Some"

\* the comparison was fetched and shows the branch behind by the threshold,
\* counted in all commits and in merge commits
BehindByMerges ==
    /\ answers.comparison.kind = "Ok"
    /\ answers.comparison.behind_by >= answers.merge_commits_threshold
    /\ Cardinality(MergeCommits) >= answers.merge_commits_threshold

\* C40: behind_master returns a warning exactly when the event is for a PR,
\* the repository was fetched, and the parent commit is too old or, the age
\* check having answered None or an error, the comparison was fetched with
\* behind_by and the number of auto and rollup merges both at the threshold;
\* with a parent too old the warning is the one of the age, whatever the
\* comparison; otherwise None is returned
C40_WarningExactlyWhenBehind ==
    hpc = "done" =>
        /\ warning.kind = "Some"
              <=> (/\ answers.is_pr
                   /\ answers.repository.kind = "Ok"
                   /\ (ParentTooOld \/ BehindByMerges))
        /\ warning.kind # "Some" => warning = ReturnNone
        /\ (warning.kind = "Some" /\ ParentTooOld)
              => warning = AgeWarning(answers.parent.days_old)
        /\ (warning.kind = "Some" /\ ~ParentTooOld)
              => warning.text[1] = "merge" /\ warning.text[2] = Cardinality(MergeCommits)

\* a merge warning after an age check that failed, from one auto merge and
\* one rollup merge among other commits
C40_Witness ==
    /\ hpc = "done"
    /\ answers.parent = AnswerErr
    /\ answers.merge_commits_threshold = 2
    /\ answers.comparison.kind = "Ok"
    /\ Len(answers.comparison.commits) = 3
    /\ warning = MergeWarning(2, 1, 1)

\* an age warning although the comparison could not be fetched
C40_WitnessAge ==
    /\ hpc = "done"
    /\ answers.comparison = AnswerErr
    /\ warning = AgeWarning(15)
====
